---------------------------- MODULE Spec2Model ----------------------------
(***************************************************************************)
(* wlsplit: a speedrun split timer.  WlSplitTimer (src/src/wl_split_timer.rs)*)
(* wraps a livesplit_core::Timer and the path of the run file; commands     *)
(* arrive on a unix socket (src/src/main.rs) or as key events of the        *)
(* terminal front-end (src/src/display/terminal/terminal.rs); a render loop *)
(* (src/src/display/smithay/smithay.rs) reads the timer under the same      *)
(* mutex and keeps the index of the row it last drew as current.            *)
(*                                                                         *)
(* The operators named Timer_* and Run_* give the behaviour of the          *)
(* livesplit_core calls the wrapper makes (Timer::start, Timer::split,      *)
(* Timer::skip_split, Timer::toggle_pause_or_start, Timer::reset and the    *)
(* bookkeeping reset performs); each is mapped to the line of the wrapper   *)
(* that makes the call.  Only real time is tracked (the run file stores no  *)
(* game time), the run offset is zero (the wrapper never sets one), and of  *)
(* Run::fix_splits only the removal of empty history entries is modelled:   *)
(* its other repairs are the identity on the run data the timer itself      *)
(* produces.  The entries that set_run_as_pb imports under non-positive ids *)
(* are not tracked.                                                         *)
(***************************************************************************)
EXTENDS Integers, Sequences, FiniteSets, TLC

\* ------------------------------------------------------------------ bounds
NumSegments == 2      \* segments of the run (never empty)
MaxTime == 2          \* the clock stops advancing here (milliseconds)
MaxAttempts == 2      \* attempts started in one behaviour
MaxConns == 2         \* connections made to the control socket
MaxLines == 2         \* lines sent on the control socket, all connections
MaxHours == 100       \* the hours of the times formatted and parsed

\* Option::None for an index or a time.
None == -1

Segs == 0 .. (NumSegments - 1)

VARIABLES
    timer,          \* WlSplitTimer.timer: the livesplit_core Timer and its Run
    now,            \* the clock read by TimeStamp::now()
    file,           \* the run file on storage (what write_file last wrote)
    writable,       \* whether a write to storage succeeds
    lock,           \* holder of the Mutex<WlSplitTimer>: "none", "listener"
                    \* or "render"
    current_split,  \* Surface.current_split: the row last drawn as current
    exit,           \* WlSplitTimer.exit
    render,         \* the render loop: where it is, what it keeps, and
                    \* whether its last call of draw came back without a
                    \* pixel buffer
    socket,         \* the control socket: its file, its connections, and
                    \* the commands sent on it and applied from it
    conv            \* a conversion between times and their text under way:
                    \* what goes in, what has come out, and the next step

vars ==
    <<timer, now, file, writable, lock, current_split, exit, render, socket,
      conv>>

\* ------------------------------------------------------------ small helpers
MaxOf(S) == CHOOSE x \in S : \A y \in S : y <= x

\* The split time of the last segment before i that has one, zero when none has.
LastSplitBefore(st, i) ==
    LET S == {j \in Segs : j < i /\ st[j] # None}
    IN IF S = {} THEN 0 ELSE st[MaxOf(S)]

\* ------------------------------------------------- livesplit_core::Timer
\* Timer::current_time().real_time
Timer_current_time(t, clock) ==
    CASE t.phase = "NotRunning" -> 0
      [] t.phase = "Running"    -> clock - t.adjusted_start_time
      [] t.phase = "Paused"     -> t.time_paused_at
      [] t.phase = "Ended"      -> t.split_time[NumSegments - 1]

\* Timer::start that keeps the start time of the attempt before.
Timer_start_stale_clock(t, clock) ==
    IF t.phase = "NotRunning"
    THEN [t EXCEPT !.phase = "Running",
                   !.current_split_index = 0,
                   !.time_paused_at = 0,
                   !.attempt_count = @ + 1]
    ELSE t

\* Timer::start that does not count the attempt.
Timer_start_uncounted(t, clock) ==
    IF t.phase = "NotRunning"
    THEN [t EXCEPT !.phase = "Running",
                   !.current_split_index = 0,
                   !.adjusted_start_time = clock,
                   !.time_paused_at = 0]
    ELSE t

\* Timer::start: only when NotRunning; counts the attempt as it starts.
Timer_start(t, clock) ==
    IF t.phase = "NotRunning"
    THEN [t EXCEPT !.phase = "Running",
                   !.current_split_index = 0,
                   !.adjusted_start_time = clock,
                   !.time_paused_at = 0,
                   !.attempt_count = @ + 1]
    ELSE t

\* Timer::split that never ends the run.
Timer_split_no_end(t, clock) ==
    LET cur == Timer_current_time(t, clock)
        i == t.current_split_index
    IN IF t.phase = "Running" /\ cur >= 0
       THEN [t EXCEPT !.split_time[i] = cur,
                      !.current_split_index = i + 1]
       ELSE t

\* Timer::split: only when Running and the current time is not negative.
Timer_split(t, clock) ==
    LET cur == Timer_current_time(t, clock)
        i == t.current_split_index
    IN IF t.phase = "Running" /\ cur >= 0
       THEN [t EXCEPT !.split_time[i] = cur,
                      !.current_split_index = i + 1,
                      !.phase = IF i + 1 = NumSegments THEN "Ended" ELSE "Running"]
       ELSE t

\* Timer::skip_split without the check for the last segment.
Timer_skip_split_unguarded(t) ==
    LET i == t.current_split_index
    IN IF t.phase \in {"Running", "Paused"}
       THEN [t EXCEPT !.current_split_index = i + 1]
       ELSE t

\* Timer::skip_split: Running or Paused, and not at the last segment.
Timer_skip_split(t) ==
    LET i == t.current_split_index
    IN IF t.phase \in {"Running", "Paused"} /\ i < NumSegments - 1
       THEN [t EXCEPT !.split_time[i] = None,
                      !.current_split_index = i + 1]
       ELSE t

\* Timer::pause
Timer_pause(t, clock) ==
    IF t.phase = "Running"
    THEN [t EXCEPT !.time_paused_at = Timer_current_time(t, clock),
                   !.phase = "Paused"]
    ELSE t

\* Timer::resume
Timer_resume(t, clock) ==
    IF t.phase = "Paused"
    THEN [t EXCEPT !.adjusted_start_time = clock - t.time_paused_at,
                   !.phase = "Running"]
    ELSE t

\* A toggle that leaves a timer that is not running alone.
Timer_toggle_pause_only(t, clock) ==
    CASE t.phase = "Running"    -> Timer_pause(t, clock)
      [] t.phase = "Paused"     -> Timer_resume(t, clock)
      [] OTHER                  -> t

\* Timer::toggle_pause_or_start
Timer_toggle_pause_or_start(t, clock) ==
    CASE t.phase = "Running"    -> Timer_pause(t, clock)
      [] t.phase = "Paused"     -> Timer_resume(t, clock)
      [] t.phase = "NotRunning" -> Timer_start(t, clock)
      [] OTHER                  -> t

\* Run::add_attempt, from Timer::update_attempt_history: the attempt's time is
\* its final time when the run Ended and empty otherwise; its id is one more
\* than the largest id in the history.
Timer_update_attempt_history(t, clock) ==
    LET ids == {t.attempt_history[k].index : k \in 1 .. Len(t.attempt_history)}
        id == (IF ids = {} THEN 0 ELSE MaxOf(ids)) + 1
        time == IF t.phase = "Ended" THEN Timer_current_time(t, clock) ELSE None
    IN [t EXCEPT !.attempt_history = Append(@, [index |-> id, time |-> time])]

\* update_best_segments that stores the new segment time without comparing.
Timer_update_best_segments_overwrites(t) ==
    LET prev(i) == IF i = 0 THEN 0 ELSE t.split_time[i - 1]
        cur(i) == IF prev(i) = None THEN None ELSE t.split_time[i] - prev(i)
        new(i) == IF t.split_time[i] = None THEN t.best_segment_time[i]
                  ELSE cur(i)
    IN [t EXCEPT !.best_segment_time = [i \in Segs |-> new(i)]]

\* Timer::update_best_segments: a segment whose split and whose predecessor's
\* split are both present competes with the stored best segment time.
Timer_update_best_segments(t) ==
    LET prev(i) == IF i = 0 THEN 0 ELSE t.split_time[i - 1]
        cur(i) == IF prev(i) = None THEN None ELSE t.split_time[i] - prev(i)
        new(i) ==
            IF t.split_time[i] = None THEN t.best_segment_time[i]
            ELSE IF t.best_segment_time[i] = None THEN cur(i)
            ELSE IF cur(i) # None /\ cur(i) < t.best_segment_time[i] THEN cur(i)
            ELSE t.best_segment_time[i]
    IN [t EXCEPT !.best_segment_time = [i \in Segs |-> new(i)]]

\* update_pb_splits that takes every finished attempt as the personal best.
Timer_update_pb_splits_always(t) ==
    IF t.split_time[NumSegments - 1] # None
    THEN [t EXCEPT !.personal_best_split_time = t.split_time]
    ELSE t

\* Timer::update_pb_splits and set_run_as_pb: a final split below the stored
\* personal best (or with none stored) makes this attempt's splits the
\* personal best.
Timer_update_pb_splits(t) ==
    LET s == t.split_time[NumSegments - 1]
        pb == t.personal_best_split_time[NumSegments - 1]
    IN IF s # None /\ (pb = None \/ s < pb)
       THEN [t EXCEPT !.personal_best_split_time = t.split_time]
       ELSE t

\* Run::update_segment_history: every segment before the current index gets an
\* entry under the id of the attempt just added, its split minus the last
\* split made before it, empty when the segment has no split.
Timer_update_segment_history(t) ==
    LET id == t.attempt_history[Len(t.attempt_history)].index
        n == IF t.current_split_index = None THEN 0 ELSE t.current_split_index
        seg(i) == IF t.split_time[i] = None THEN None
                  ELSE t.split_time[i] - LastSplitBefore(t.split_time, i)
        has(i) == \E e \in t.segment_history[i] : e.id = id
    IN [t EXCEPT !.segment_history =
            [i \in Segs |->
                IF i < n /\ ~has(i)
                THEN t.segment_history[i] \cup {[id |-> id, time |-> seg(i)]}
                ELSE t.segment_history[i]]]

\* Run::fix_splits (remove_none_values): an empty history entry stays only
\* when, under the same id, the entries that follow it in segment order are
\* empty up to one that holds a time.
Run_fix_splits(t) ==
    LET empty(i, id) == \E e \in t.segment_history[i] : e.id = id /\ e.time = None
        timed(i, id) == \E e \in t.segment_history[i] : e.id = id /\ e.time # None
        leads(i, id) == \E k \in Segs : /\ k > i
                                        /\ timed(k, id)
                                        /\ \A j \in i .. k - 1 : empty(j, id)
    IN [t EXCEPT !.segment_history =
            [i \in Segs |-> {e \in t.segment_history[i] :
                                e.time # None \/ leads(i, e.id)}]]

\* Timer::reset_state
Timer_reset_state(t, update_times, clock) ==
    IF update_times
    THEN Timer_update_segment_history(
            Timer_update_pb_splits(
                Timer_update_best_segments(
                    Timer_update_attempt_history(t, clock))))
    ELSE t

\* Timer::reset_splits
Timer_reset_splits(t) ==
    Run_fix_splits([t EXCEPT !.phase = "NotRunning",
                             !.current_split_index = None,
                             !.split_time = [i \in Segs |-> None]])

\* Timer::reset: nothing when NotRunning.
Timer_reset(t, update_splits, clock) ==
    IF t.phase # "NotRunning"
    THEN Timer_reset_splits(Timer_reset_state(t, update_splits, clock))
    ELSE t


\* --------------------------------------------------------------- run file
\* file::Run::new: the document write_file serialises.  A time that is absent
\* is written as zero; the "Personal Best" split time of a segment is written
\* from the same milliseconds as its best segment time.
FileMsecs(time) == IF time = None THEN 0 ELSE time

RunFile(t) ==
    [attempt_count |-> t.attempt_count,
     attempt_history |->
        [k \in 1 .. Len(t.attempt_history) |->
            [id |-> t.attempt_history[k].index,
             time |-> FileMsecs(t.attempt_history[k].time)]],
     segments |->
        [i \in Segs |->
            [best_segment_time |-> FileMsecs(t.best_segment_time[i]),
             split_times |-> FileMsecs(t.best_segment_time[i]),
             segment_history |->
                {[id |-> e.id, time |-> FileMsecs(e.time)] :
                    e \in t.segment_history[i]}]]]

\* ------------------------------------------------------------ WlSplitTimer
\* The wrapper's methods act on w = [timer, file]; ok says whether a write to
\* storage succeeds (its failure is dropped by .ok()).
write_file(w, ok) == [w EXCEPT !.file = IF ok THEN RunFile(w.timer) ELSE @]

\* start that saves the run once the attempt is counted.
start_saves(w, clock) ==
    write_file([w EXCEPT !.timer = Timer_start(@, clock)], TRUE)

start(w, clock) == [w EXCEPT !.timer = Timer_start(@, clock)]

\* pause that calls Timer::pause instead of the toggle.
pause_only_pauses(w, clock) == [w EXCEPT !.timer = Timer_pause(@, clock)]

pause(w, clock) == [w EXCEPT !.timer = Timer_toggle_pause_or_start(@, clock)]

skip(w) == [w EXCEPT !.timer = Timer_skip_split(@)]

\* reset that ignores its flag and always updates and writes.
reset_always_updates(w, update_splits, clock, ok) ==
    write_file([w EXCEPT !.timer = Timer_reset(@, TRUE, clock)], ok)

\* reset that passes false to Timer::reset whatever its flag.
reset_never_updates(w, update_splits, clock, ok) ==
    LET w1 == [w EXCEPT !.timer = Timer_reset(@, FALSE, clock)]
    IN IF update_splits THEN write_file(w1, ok) ELSE w1

\* reset that hands the failure of the write to its caller and leaves the
\* timer as it found it.
reset_write_required(w, update_splits, clock, ok) ==
    IF update_splits /\ ~ok THEN w
    ELSE LET w1 == [w EXCEPT !.timer = Timer_reset(@, update_splits, clock)]
         IN IF update_splits THEN write_file(w1, ok) ELSE w1

reset(w, update_splits, clock, ok) ==
    LET w1 == [w EXCEPT !.timer = Timer_reset(@, update_splits, clock)]
    IN IF update_splits THEN write_file(w1, ok) ELSE w1

\* split, first statement: self.timer.split()
split_call(w, clock) == [w EXCEPT !.timer = Timer_split(@, clock)]

\* The rest of split without the test for the end of the run.
split_end_of_run_unconditional(w, clock, ok) ==
    write_file(reset(w, TRUE, clock, ok), ok)

\* The rest of split that writes the file but leaves the timer Ended.
split_end_of_run_no_reset(w, clock, ok) ==
    IF w.timer.phase = "Ended"
    THEN write_file(w, ok)
    ELSE w

\* The rest of split that resets without updating.
split_end_of_run_discards(w, clock, ok) ==
    IF w.timer.phase = "Ended"
    THEN write_file(reset(w, FALSE, clock, ok), ok)
    ELSE w

\* split, the rest: at the end of the run, reset(true) and one more write.
split_end_of_run(w, clock, ok) ==
    IF w.timer.phase = "Ended"
    THEN write_file(reset(w, TRUE, clock, ok), ok)
    ELSE w

\* Milliseconds of a time, zero for one that is absent (unwrap_or_default).
Msecs(time) == IF time = None THEN 0 ELSE time

\* sum_of_best_segments: the loop over the segments, adding each best segment
\* time that is present.
sum_of_best_segments(t) ==
    LET n == Cardinality(DOMAIN t.best_segment_time)
        sum[k \in 0 .. n] ==
            IF k = 0 THEN 0
            ELSE IF t.best_segment_time[k - 1] # None
                 THEN sum[k - 1] + t.best_segment_time[k - 1]
                 ELSE sum[k - 1]
    IN sum[n]

\* best_possible_time that reads the split of the current segment.
best_possible_time_from_current(t) ==
    LET n == Cardinality(DOMAIN t.best_segment_time)
        index == IF t.current_split_index = None THEN 0
                 ELSE t.current_split_index
        time[k \in index .. n] ==
            IF k = index THEN Msecs(IF index < n THEN t.split_time[index] ELSE None)
            ELSE time[k - 1] + Msecs(t.best_segment_time[k - 1])
    IN IF index = 0 THEN sum_of_best_segments(t) ELSE time[n]

\* best_possible_time that adds the best time of every segment.
best_possible_time_unskipped(t) ==
    LET n == Cardinality(DOMAIN t.best_segment_time)
        index == IF t.current_split_index = None THEN 0
                 ELSE t.current_split_index
        time[k \in 0 .. n] ==
            IF k = 0 THEN Msecs(t.split_time[index - 1])
            ELSE time[k - 1] + Msecs(t.best_segment_time[k - 1])
    IN IF index = 0 THEN sum_of_best_segments(t) ELSE time[n]

\* best_possible_time: at index 0, or without a current segment, the sum of
\* best segments; otherwise the split time of segment index - 1, then the
\* loop over the segments from index on, adding each best segment time.
best_possible_time(t) ==
    LET n == Cardinality(DOMAIN t.best_segment_time)
        index == IF t.current_split_index = None THEN 0
                 ELSE t.current_split_index
        time[k \in index .. n] ==
            IF k = index THEN Msecs(t.split_time[index - 1])
            ELSE time[k - 1] + Msecs(t.best_segment_time[k - 1])
    IN IF index = 0 THEN sum_of_best_segments(t) ELSE time[n]

\* ------------------------------------------------------------------- Init
\* WlSplitTimer::new: a generated run, nothing recorded, written at once.
FreshTimer ==
    [phase |-> "NotRunning",
     current_split_index |-> None,
     adjusted_start_time |-> 0,
     time_paused_at |-> 0,
     split_time |-> [i \in Segs |-> None],
     attempt_count |-> 0,
     attempt_history |-> << >>,
     personal_best_split_time |-> [i \in Segs |-> None],
     best_segment_time |-> [i \in Segs |-> None],
     segment_history |-> [i \in Segs |-> {}]]

\* WlSplitTimer::from_file: a run saved after one completed attempt that
\* took one millisecond per segment.
LoadedTimer ==
    [FreshTimer EXCEPT
        !.attempt_count = 1,
        !.attempt_history = << [index |-> 1, time |-> NumSegments] >>,
        !.personal_best_split_time = [i \in Segs |-> i + 1],
        !.best_segment_time = [i \in Segs |-> 1],
        !.segment_history = [i \in Segs |-> {[id |-> 1, time |-> 1]}]]

Init ==
    /\ timer \in {FreshTimer, LoadedTimer}
    /\ now = 0
    /\ file = RunFile(timer)
    /\ writable = TRUE
    /\ lock = "none"
    /\ current_split = None
    /\ exit = FALSE
    /\ render = [pc |-> "top", extra_frame |-> FALSE, damage |-> << >>,
                 scale |-> 1, current_scale |-> 1]
    /\ socket = [bound |-> TRUE, conns |-> << >>,
                 received |-> << >>, applied |-> << >>]
    /\ conv = [pc |-> "idle"]

\* ---------------------------------------------------------------- actions
World == [timer |-> timer, file |-> file]

Apply(w) ==
    /\ timer' = w.timer
    /\ file' = w.file

\* The clock advances, whoever holds the lock.  Only differences of clock
\* readings taken during an attempt are ever used, so the time that passes
\* while no attempt is in progress is not represented.
Tick ==
    /\ timer.phase # "NotRunning"
    /\ now < MaxTime
    /\ now' = now + 1
    /\ UNCHANGED <<timer, file, writable, lock, current_split, exit, render, socket, conv>>

\* "start" on the socket
Start ==
    /\ lock = "none"
    /\ timer.attempt_count < MaxAttempts
    /\ Apply(start(World, now))
    /\ UNCHANGED <<now, writable, lock, current_split, exit, render, socket, conv>>

\* "pause" on the socket, the space key
Pause ==
    /\ lock = "none"
    /\ timer.phase = "NotRunning" => timer.attempt_count < MaxAttempts
    /\ Apply(pause(World, now))
    /\ UNCHANGED <<now, writable, lock, current_split, exit, render, socket, conv>>

\* "skip" on the socket
Skip ==
    /\ lock = "none"
    /\ Apply(skip(World))
    /\ UNCHANGED <<now, writable, lock, current_split, exit, render, socket, conv>>

\* "reset" on the socket and the r key: reset(true)
Reset ==
    /\ lock = "none"
    /\ Apply(reset(World, TRUE, now, writable))
    /\ UNCHANGED <<now, writable, lock, current_split, exit, render, socket, conv>>

\* the ctrl-r key: reset(false)
ResetNoUpdate ==
    /\ lock = "none"
    /\ Apply(reset(World, FALSE, now, writable))
    /\ UNCHANGED <<now, writable, lock, current_split, exit, render, socket, conv>>

\* "split" on the socket, the enter key: the lock is taken and Timer::split
\* is called.
SplitCall ==
    /\ lock = "none"
    /\ lock' = "listener"
    /\ Apply(split_call(World, now))
    /\ UNCHANGED <<now, writable, current_split, exit, render, socket, conv>>

\* The rest of split, after which the lock is released.
SplitReturn ==
    /\ lock = "listener"
    /\ lock' = "none"
    /\ Apply(split_end_of_run(World, now, writable))
    /\ UNCHANGED <<now, writable, current_split, exit, render, socket, conv>>

\* The segment indexes one pass of Surface::draw uses, given the cursor it
\* starts with: the full repaint walks every row and marks the current index
\* or row 0; otherwise the row drawn before and the current row are redrawn,
\* and nothing is when the timer has no current segment.
DrawIndexes(t, cursor) ==
    IF cursor = None
    THEN Segs \cup {IF t.current_split_index = None THEN 0
                    ELSE t.current_split_index}
    ELSE IF t.current_split_index = None THEN {}
    ELSE {cursor, t.current_split_index}

\* A pass that leaves the cursor where the loop over the rows put it: on
\* the current segment, or on row 0 when there is none.
Surface_draw_cursor_of_rows(t, cursor, rescaled, buffer) ==
    LET c == IF rescaled THEN None ELSE cursor
    IN IF buffer
       THEN (IF t.current_split_index = None THEN 0
             ELSE t.current_split_index)
       ELSE c

\* A pass that keeps its cursor through a change of scale.
Surface_draw_keeps_cursor(t, cursor, rescaled, buffer) ==
    IF buffer THEN t.current_split_index ELSE cursor

\* Surface::draw, the cursor it leaves: a change of scale drops the cursor
\* first (a full repaint follows); without a pixel buffer the pass stops
\* there; otherwise it ends with the cursor at the timer's current index
\* (absent when the timer has no current segment).
Surface_draw(t, cursor, rescaled, buffer) ==
    LET c == IF rescaled THEN None ELSE cursor
    IN IF buffer THEN t.current_split_index ELSE c

\* One pass of the render loop, the timer read under the lock.
Draw ==
    /\ lock = "none"
    /\ \E rescaled \in BOOLEAN, buffer \in BOOLEAN :
          current_split' = Surface_draw(timer, current_split, rescaled, buffer)
    /\ UNCHANGED <<timer, now, file, writable, lock, exit, render, socket, conv>>

Next ==
    \/ Tick
    \/ Start
    \/ Pause
    \/ Skip
    \/ Reset
    \/ ResetNoUpdate
    \/ SplitCall
    \/ SplitReturn

\* The timer and the commands that reach it.
Spec == Init /\ [][Next]_vars

\* The same, with the render loop drawing between the commands.
NextRender ==
    \/ Next
    \/ Draw

SpecRender == Init /\ [][NextRender]_vars

\* --------------------------------------------------------- control socket
\* The lines handle_stream_response recognises, and one it does not.
Commands == {"start", "split", "skip", "pause", "reset", "quit"}

Lines == Commands \cup {"other"}

\* WlSplitTimer as the listener sees it.
Self == [timer |-> timer, file |-> file, exit |-> exit]

\* WlSplitTimer::split, the whole method.
split(w, clock, ok) == split_end_of_run(split_call(w, clock), clock, ok)

\* quit that does not raise the exit flag the listener ends on.
quit_keeps_listening(w) == w

quit(w) == [w EXCEPT !.exit = TRUE]

\* The match on one line with a reset arm that calls reset(false).
handle_line_reset_discards(w, line, clock, ok) ==
    CASE line = "start" -> start(w, clock)
      [] line = "split" -> split(w, clock, ok)
      [] line = "skip"  -> skip(w)
      [] line = "pause" -> pause(w, clock)
      [] line = "reset" -> reset(w, FALSE, clock, ok)
      [] line = "quit"  -> quit(w)
      [] OTHER          -> w

\* handle_stream_response, the match on one line.
handle_line(w, line, clock, ok) ==
    CASE line = "start" -> start(w, clock)
      [] line = "split" -> split(w, clock, ok)
      [] line = "skip"  -> skip(w)
      [] line = "pause" -> pause(w, clock)
      [] line = "reset" -> reset(w, TRUE, clock, ok)
      [] line = "quit"  -> quit(w)
      [] OTHER          -> w

\* The connections whose stream has something left for the listener: a line
\* not read yet, or an end that has not been closed.
Unserved(conns) ==
    {k \in 1 .. Len(conns) :
        conns[k].open \/ conns[k].read < Len(conns[k].sent)}

\* The listener serves a connection picked among all that hold a line.
NextStream_any(conns) ==
    LET S == {k \in 1 .. Len(conns) : conns[k].read < Len(conns[k].sent)}
    IN IF S = {} THEN 0 ELSE MaxOf(S)

\* listener.incoming(): the connections come in the order they were made, and
\* handle_stream_response reads one to its end before the next is taken.
\* Zero when none is left.
NextStream(conns) ==
    LET S == Unserved(conns)
    IN IF S = {} THEN 0 ELSE CHOOSE k \in S : \A j \in S : k <= j

LinesSent(conns) ==
    LET n[k \in 0 .. Len(conns)] ==
            IF k = 0 THEN 0 ELSE n[k - 1] + Len(conns[k].sent)
    IN n[Len(conns)]

\* A client connects (wlsplitctl, or any other).
Connect ==
    /\ socket.bound
    /\ Len(socket.conns) < MaxConns
    /\ socket' = [socket EXCEPT !.conns =
                    Append(@, [sent |-> << >>, read |-> 0, open |-> TRUE])]
    /\ UNCHANGED <<timer, now, file, writable, lock, current_split, exit, render, conv>>

\* A client writes a line; received keeps the recognised ones in the order
\* they reach the socket.
Send ==
    /\ LinesSent(socket.conns) < MaxLines
    /\ \E k \in 1 .. Len(socket.conns), line \in Lines :
          /\ socket.conns[k].open
          /\ socket' = [socket EXCEPT
                          !.conns[k].sent = Append(@, line),
                          !.received = IF line \in Commands
                                       THEN Append(@, line) ELSE @]
    /\ UNCHANGED <<timer, now, file, writable, lock, current_split, exit, render, conv>>

\* A client closes its end.
Close ==
    /\ \E k \in 1 .. Len(socket.conns) :
          /\ socket.conns[k].open
          /\ socket' = [socket EXCEPT !.conns[k].open = FALSE]
    /\ UNCHANGED <<timer, now, file, writable, lock, current_split, exit, render, conv>>

\* The listener thread: the next line of the stream it is serving, handled
\* under the lock.  The thread ends with the quit it handles.
Listen ==
    /\ ~exit
    /\ lock = "none"
    /\ LET k == NextStream(socket.conns)
       IN /\ k # 0
          /\ socket.conns[k].read < Len(socket.conns[k].sent)
          /\ LET line == socket.conns[k].sent[socket.conns[k].read + 1]
                 w == handle_line(Self, line, now, writable)
             IN /\ timer' = w.timer
                /\ file' = w.file
                /\ exit' = w.exit
                /\ socket' = [socket EXCEPT
                                !.conns[k].read = @ + 1,
                                !.applied = IF line \in Commands
                                            THEN Append(@, line) ELSE @]
    /\ UNCHANGED <<now, writable, lock, current_split, render, conv>>

NextSocket ==
    \/ Connect
    \/ Send
    \/ Close
    \/ Listen

\* The listener thread and the clients of the socket.  The clock stands still
\* here: which line is handled when does not depend on it.
SpecSocket == Init /\ [][NextSocket]_vars

\* ------------------------------------------------------------ render loop
\* The top of a tick that does not look at the exit flag.
App_run_top_ignores_exit(ex) == "events"

\* App::run, the top of a tick: the exit flag, read under the lock, ends the
\* loop.
App_run_top(ex) == IF ex THEN "done" ELSE "events"

\* A guard taken for a snapshot and given back before the painting.
timer_lock_released == "none"

\* Surface::draw, the guard it takes before it paints.
timer_lock == "render"

\* A guard kept to the end of draw.
drop_timer_late == "render"

\* Surface::draw, drop(timer) once the last cell is painted (and the guard
\* going out of scope where draw returns early).
drop_timer == "none"

\* A pass that always paints the whole surface.
Surface_damage_full(t, cursor) ==
    << <<"surface", 0>>, <<"clock", NumSegments + 1>> >>

\* A pass that submits one rectangle over the rows when the cursor moved.
Surface_damage_rows_joined(t, cursor) ==
    LET i == t.current_split_index
        clock == <<"clock", NumSegments + 1>>
    IN IF cursor = None THEN << <<"surface", 0>>, clock >>
       ELSE IF i = None THEN << >>
       ELSE IF cursor # i THEN << <<"rows", 0>>, clock >>
       ELSE << <<"time", i>>, clock >>

\* Surface::draw, the damage it collects while it paints, as <<cell, row>>:
\* with no cursor the whole surface is painted; with a cursor and no current
\* segment nothing is; with the cursor off the current index the titles of
\* both rows, the time of the row left, the attempts counter and the
\* previous-segment line, then the time of the current row; in every pass
\* that paints, the clock under the rows comes last.
Surface_damage(t, cursor) ==
    LET i == t.current_split_index
        clock == <<"clock", NumSegments + 1>>
    IN IF cursor = None THEN << <<"surface", 0>>, clock >>
       ELSE IF i = None THEN << >>
       ELSE IF cursor # i
            THEN << <<"title", cursor>>, <<"title", i>>, <<"time", cursor>>,
                    <<"attempts", 0>>, <<"previous", NumSegments + 3>>,
                    <<"time", i>>, clock >>
       ELSE << <<"time", i>>, clock >>

\* "quit" on the socket; the listener thread ends with it.
Quit ==
    /\ lock = "none"
    /\ exit' = quit(Self).exit
    /\ UNCHANGED <<timer, now, file, writable, lock, current_split, render, socket, conv>>

\* The listener thread, as long as it lives: it ends with the quit it
\* handles, and with the process.
Command ==
    /\ ~exit
    /\ render.pc # "exited"
    /\ \/ Start
       \/ Pause
       \/ Skip
       \/ Reset
       \/ SplitCall
       \/ SplitReturn
       \/ Quit

\* The scale factors a compositor reports (scale_handle).
Scales == {1, 2}

\* App::run, whether this tick calls draw.
App_run_draw(redraw, timer_running, extra_frame) ==
    redraw \/ timer_running \/ extra_frame

\* App::run, top of the loop (reached after a pass, or after a draw that
\* returned without a buffer): lock, read exit, unlock.
RenderTop ==
    /\ render.pc \in {"top", "skipped"}
    /\ lock = "none"
    /\ render' = [render EXCEPT !.pc = App_run_top(exit), !.damage = << >>]
    /\ UNCHANGED <<timer, now, file, writable, lock, current_split, exit, socket, conv>>

\* App::run, the rest of the tick up to the call of draw: the compositor's
\* event, the phase read under the lock, and whether to draw.  extra_frame is
\* written after the draw and read only here, so it is set at once.
RenderEvents ==
    /\ render.pc = "events"
    /\ lock = "none"
    /\ \E ev \in {"Close", "Redraw", "Idle"} :
          LET timer_running == timer.phase = "Running"
              draw == App_run_draw(ev = "Redraw", timer_running,
                                   render.extra_frame)
          IN render' = IF ev = "Close"
                       THEN [render EXCEPT !.pc = "done"]
                       ELSE [render EXCEPT
                                !.pc = IF draw THEN "buffer" ELSE "top",
                                !.extra_frame = timer_running]
    /\ UNCHANGED <<timer, now, file, writable, lock, current_split, exit, socket, conv>>

\* Surface::draw before the lock: the scale the compositor last reported,
\* which becomes the scale of the surface, and the buffer from the pool.
\* Without a buffer draw returns, and the loop is at its top again, at
\* "skipped".
RenderBuffer ==
    /\ render.pc = "buffer"
    /\ \E buffer \in BOOLEAN :
          /\ current_split' = Surface_draw(timer, current_split,
                                           render.current_scale # render.scale,
                                           FALSE)
          /\ render' = [render EXCEPT
                          !.pc = IF buffer THEN "lock" ELSE "skipped",
                          !.current_scale = render.scale]
    /\ UNCHANGED <<timer, now, file, writable, lock, exit, socket, conv>>

\* Surface::draw takes the lock.
RenderLock ==
    /\ render.pc = "lock"
    /\ lock = "none"
    /\ lock' = timer_lock
    /\ render' = [render EXCEPT !.pc = "paint"]
    /\ UNCHANGED <<timer, now, file, writable, current_split, exit, socket, conv>>

\* Surface::draw paints the cells into the canvas, reading the timer through
\* the guard, then sets the cursor and drops the guard.
Paint ==
    /\ render.pc = "paint"
    /\ render' = [render EXCEPT
                    !.damage = Surface_damage(timer, current_split),
                    !.pc = IF current_split # None
                              /\ timer.current_split_index = None
                           THEN "top" ELSE "commit"]
    /\ current_split' = Surface_draw(timer, current_split, FALSE, TRUE)
    /\ lock' = drop_timer
    /\ UNCHANGED <<timer, now, file, writable, exit, socket>>

RenderPaint ==
    /\ Paint
    /\ UNCHANGED conv

\* Surface::draw, the end: the transparency pass over the pixels, attach,
\* damage_buffer for each rectangle, commit.
RenderCommit ==
    /\ render.pc = "commit"
    /\ render' = [render EXCEPT !.pc = "top"]
    /\ UNCHANGED <<timer, now, file, writable, lock, current_split, exit, socket, conv>>

\* main, after the loop: the socket file is removed and the process ends.
RenderExit ==
    /\ render.pc = "done"
    /\ render' = [render EXCEPT !.pc = "exited"]
    /\ socket' = [socket EXCEPT !.bound = FALSE]
    /\ UNCHANGED <<timer, now, file, writable, lock, current_split, exit, conv>>

RenderStep ==
    \/ RenderTop
    \/ RenderEvents
    \/ RenderBuffer
    \/ RenderLock
    \/ RenderPaint
    \/ RenderCommit
    \/ RenderExit

NextFrame ==
    \/ Command
    \/ RenderStep

\* The listener thread and the render loop, step by step.  The clock stands
\* still here: what a pass paints where, and who holds the lock when, do not
\* depend on the times.
SpecFrame == Init /\ [][NextFrame]_vars

\* The same with the main thread scheduled: a step of the render loop that
\* stays possible is taken.
FairFrame == SpecFrame /\ WF_vars(RenderStep)

\* The same with both threads scheduled.  The listener finishes the command
\* it has begun; it holds the lock for one command and then waits for the
\* next line, so the lock is granted to the render loop when it waits for
\* it: a step of the loop that is possible again and again is taken.
FairLoop == SpecFrame /\ SF_vars(RenderStep) /\ WF_vars(SplitReturn)

\* The scale callback of the surface: the compositor reports another scale
\* factor, which the dispatch at the end of a tick stores in scale_handle.
ScaleCallback ==
    /\ render.pc \in {"top", "skipped"}
    /\ \E scale \in Scales \ {render.scale} :
          render' = [render EXCEPT !.scale = scale]
    /\ UNCHANGED <<timer, now, file, writable, lock, current_split, exit, socket, conv>>

\* The commands that move the current segment, as the listener applies them.
SegmentCommand ==
    /\ ~exit
    /\ render.pc # "exited"
    /\ \/ Start
       \/ Reset
       \/ SplitCall
       \/ SplitReturn

NextSurface ==
    \/ SegmentCommand
    \/ RenderStep
    \/ ScaleCallback

\* The render loop on a surface whose scale changes, with the commands that
\* move the current segment; the loop ends when the compositor closes the
\* surface.
SpecSurface == Init /\ [][NextSurface]_vars

\* ------------------------------------------------------- segment times
\* get_segment_time that returns the split time of the segment as it is.
get_segment_time_cumulative(t, index) ==
    IF index \notin DOMAIN t.split_time THEN None
    ELSE t.split_time[index]

\* get_segment_time: the split time of the segment at index (absent when
\* there is no such segment); at index 0 that is the result; elsewhere the
\* result is its difference from the split time of the segment before, and
\* absent unless both are present.
get_segment_time(t, index) ==
    LET current_time == IF index \in DOMAIN t.split_time
                        THEN t.split_time[index] ELSE None
        time == IF (index - 1) \in DOMAIN t.split_time
                THEN t.split_time[index - 1] ELSE None
    IN IF index = 0 THEN current_time
       ELSE IF current_time # None /\ time # None THEN current_time - time
       ELSE None

\* ---------------------------------------------------------------- storage
\* The storage under the run file starts or stops taking writes (a full
\* disk, a directory removed or made read-only).
Storage ==
    /\ writable' = ~writable
    /\ UNCHANGED <<timer, now, file, lock, current_split, exit, render, socket, conv>>

NextStorage ==
    \/ Tick
    \/ Start
    \/ Pause
    \/ Reset
    \/ ResetNoUpdate
    \/ SplitCall
    \/ SplitReturn
    \/ Storage

\* The timer and the commands that reach it, over storage that can fail.
\* No segment is skipped here: a skip changes what an attempt records, not
\* whether or how the run is saved.
SpecStorage == Init /\ [][NextStorage]_vars

\* ------------------------------------------------------------- time text
\* A string is the sequence of its characters.
DigitChars == <<"0", "1", "2", "3", "4", "5", "6", "7", "8", "9">>

IsDigit(c) == \E d \in 1 .. 10 : DigitChars[d] = c

DigitValue(c) == (CHOOSE d \in 1 .. 10 : DigitChars[d] = c) - 1

\* u128::to_string
RECURSIVE to_string(_)
to_string(n) ==
    IF n < 10 THEN <<DigitChars[n + 1]>>
    ELSE to_string(n \div 10) \o <<DigitChars[(n % 10) + 1]>>

\* str::parse::<u128>: decimal digits, at least one, after an optional "+";
\* Err (None) for anything else.
parse_u128(s) ==
    LET digits == IF Len(s) > 0 /\ s[1] = "+" THEN Tail(s) ELSE s
        value[k \in 0 .. Len(digits)] ==
            IF k = 0 THEN 0 ELSE 10 * value[k - 1] + DigitValue(digits[k])
    IN IF Len(digits) = 0 \/ \E k \in 1 .. Len(digits) : ~IsDigit(digits[k])
       THEN None
       ELSE value[Len(digits)]

\* str::split: the pieces between the occurrences of c, at least one piece.
RECURSIVE str_split(_, _)
str_split(s, c) ==
    LET at == {k \in 1 .. Len(s) : s[k] = c}
    IN IF at = {} THEN <<s>>
       ELSE LET i == CHOOSE k \in at : \A j \in at : k <= j
            IN <<SubSeq(s, 1, i - 1)>> \o str_split(SubSeq(s, i + 1, Len(s)), c)

MSEC_HOUR == 3600000
MSEC_MINUTE == 60000
MSEC_SECOND == 1000

\* TimeFormat::default, TimeFormat::for_diff, TimeFormat::for_file
TimeFormat_default ==
    [hours |-> 2, minutes |-> 2, seconds |-> 2, msecs |-> 3,
     allow_shorten |-> TRUE, always_prefix |-> FALSE]

TimeFormat_for_diff == [TimeFormat_default EXCEPT !.always_prefix = TRUE]

TimeFormat_for_file == [TimeFormat_default EXCEPT !.allow_shorten = FALSE]

\* pad_zeroes: the number in decimal, zeroes in front up to the length.
pad_zeroes(time, length) ==
    LET str == to_string(time)
    IN IF Len(str) >= length THEN str
       ELSE [k \in 1 .. (length - Len(str)) |-> "0"] \o str

\* TimeFormat::format_time
format_time(self, time, negative) ==
    LET prefix == IF negative THEN <<"-">>
                  ELSE IF self.always_prefix THEN <<"+">>
                  ELSE << >>
        hours == time \div MSEC_HOUR
        time1 == time - hours * MSEC_HOUR
        minutes == time1 \div MSEC_MINUTE
        time2 == time1 - minutes * MSEC_MINUTE
        seconds == time2 \div MSEC_SECOND
        time3 == time2 - seconds * MSEC_SECOND
    IN IF self.allow_shorten /\ hours = 0
       THEN IF minutes = 0
            THEN prefix \o pad_zeroes(seconds, self.seconds) \o <<".">>
                        \o pad_zeroes(time3, self.msecs)
            ELSE prefix \o pad_zeroes(minutes, self.minutes) \o <<":">>
                        \o pad_zeroes(seconds, self.seconds) \o <<".">>
                        \o pad_zeroes(time3, self.msecs)
       ELSE prefix \o pad_zeroes(hours, self.hours) \o <<":">>
                   \o pad_zeroes(minutes, self.minutes) \o <<":">>
                   \o pad_zeroes(seconds, self.seconds) \o <<".">>
                   \o pad_zeroes(time3, self.msecs)

\* parse_time_string that keeps two characters of the fraction.
parse_time_string_two_digits(time) ==
    LET pieces == str_split(time, ":")
        rest == IF Len(pieces) >= 3 THEN str_split(pieces[3], ".") ELSE << >>
        h == parse_u128(pieces[1])
        m == IF Len(pieces) >= 2 THEN parse_u128(pieces[2]) ELSE None
        s == IF Len(rest) >= 1 THEN parse_u128(rest[1]) ELSE None
        ms == IF Len(rest) >= 2
              THEN parse_u128(SubSeq(rest[2], 1,
                                     IF Len(rest[2]) < 2 THEN Len(rest[2])
                                     ELSE 2))
              ELSE None
    IN IF h = None \/ m = None \/ s = None \/ ms = None THEN None
       ELSE MSEC_HOUR * h + MSEC_MINUTE * m + MSEC_SECOND * s + ms

\* WlSplitTimer::parse_time_string: hours, minutes and the rest between
\* colons, the rest in seconds and a fraction around a dot, of which the
\* first three characters are read as a number of milliseconds; Err (None)
\* when a piece is missing or is not a number.
parse_time_string(time) ==
    LET pieces == str_split(time, ":")
        rest == IF Len(pieces) >= 3 THEN str_split(pieces[3], ".") ELSE << >>
        h == parse_u128(pieces[1])
        m == IF Len(pieces) >= 2 THEN parse_u128(pieces[2]) ELSE None
        s == IF Len(rest) >= 1 THEN parse_u128(rest[1]) ELSE None
        ms == IF Len(rest) >= 2
              THEN parse_u128(SubSeq(rest[2], 1,
                                     IF Len(rest[2]) < 3 THEN Len(rest[2])
                                     ELSE 3))
              ELSE None
    IN IF h = None \/ m = None \/ s = None \/ ms = None THEN None
       ELSE MSEC_HOUR * h + MSEC_MINUTE * m + MSEC_SECOND * s + ms

\* ---------------------------------------------------- formatting and parsing
\* Everything but the conversion under way.
others == <<timer, now, file, writable, lock, current_split, exit, render, socket>>

\* No timer at work: only a conversion is followed.
TimerAside ==
    /\ timer = FreshTimer
    /\ now = 0
    /\ file = RunFile(timer)
    /\ writable = TRUE
    /\ lock = "none"
    /\ current_split = None
    /\ exit = FALSE
    /\ render = [pc |-> "top", extra_frame |-> FALSE, damage |-> << >>,
                 scale |-> 1, current_scale |-> 1]
    /\ socket = [bound |-> TRUE, conns |-> << >>,
                 received |-> << >>, applied |-> << >>]

\* The values at which a component of a time gains a digit or reaches its end.
Boundaries == {0, 1, 9, 10, 59, 99, 100, 999}

TimeSamples ==
    {h * MSEC_HOUR + m * MSEC_MINUTE + s * MSEC_SECOND + ms :
        h \in {x \in Boundaries : x <= MaxHours},
        m \in {x \in Boundaries : x < 60},
        s \in {x \in Boundaries : x < 60},
        ms \in {x \in Boundaries : x < 1000}}

TimeFormats == {TimeFormat_default, TimeFormat_for_diff, TimeFormat_for_file}

InitFormat ==
    /\ TimerAside
    /\ conv \in {[pc |-> "format", self |-> f, time |-> t,
                  text |-> << >>, parsed |-> None] :
                    f \in TimeFormats, t \in TimeSamples}

\* format_time(time, false)
Format ==
    /\ conv.pc = "format"
    /\ conv' = [conv EXCEPT !.text = format_time(conv.self, conv.time, FALSE),
                            !.pc = "parse"]
    /\ UNCHANGED others

\* parse_time_string of the text
Parse ==
    /\ conv.pc = "parse"
    /\ conv' = [conv EXCEPT !.parsed = parse_time_string(conv.text),
                            !.pc = "done"]
    /\ UNCHANGED others

NextFormat ==
    \/ Format
    \/ Parse

\* A time formatted, and the text parsed.
SpecFormat == InitFormat /\ [][NextFormat]_vars

\* ------------------------------------------------- loading and saving a run
\* Option<String>: no element, or the string.
NoText == << >>

\* WlSplitTimer::string_to_time: the milliseconds parsed; the expect on an
\* Err (None here) is a panic, which file_to_run below turns into its result.
string_to_time(string) == parse_time_string(string)

\* file_to_run: the Run read from the document of a run file.  An attempt
\* without a time is passed over; a pause time that does not parse is
\* dropped; the time of an attempt, a best segment time, a personal-best
\* split or a history entry (one that has an id) that does not parse meets
\* the expect of string_to_time, and the whole load panics.
file_to_run(doc) ==
    LET attempts == SelectSeq(doc.attempt_history, LAMBDA a : a.time # NoText)
        bad(text) == text # NoText /\ string_to_time(text[1]) = None
        time(text) == IF text = NoText THEN None ELSE string_to_time(text[1])
        entries(i) == {e \in doc.segments[i].segment_history : e.id # None}
        panics ==
            \/ \E k \in 1 .. Len(attempts) : bad(attempts[k].time)
            \/ \E i \in Segs :
                  \/ bad(doc.segments[i].best_segment_time)
                  \/ bad(doc.segments[i].personal_best_split_time)
                  \/ \E e \in entries(i) : bad(e.time)
    IN IF panics THEN [panic |-> TRUE]
       ELSE [panic |-> FALSE,
             attempt_count |-> doc.attempt_count,
             attempt_history |->
                [k \in 1 .. Len(attempts) |->
                    [index |-> attempts[k].id,
                     time |-> time(attempts[k].time),
                     pause_time |-> time(attempts[k].pause_time)]],
             best_segment_time |->
                [i \in Segs |-> time(doc.segments[i].best_segment_time)],
             personal_best_split_time |->
                [i \in Segs |-> time(doc.segments[i].personal_best_split_time)],
             segment_history |->
                [i \in Segs |->
                    {[id |-> e.id, time |-> time(e.time)] : e \in entries(i)}]]

\* file::Run::new down to the text: every time of the document is written,
\* in the default format.
RunFileText(t) ==
    LET text(msecs) == <<format_time(TimeFormat_default, msecs, FALSE)>>
        run == RunFile(t)
    IN [attempt_count |-> run.attempt_count,
        attempt_history |->
            [k \in DOMAIN run.attempt_history |->
                [id |-> run.attempt_history[k].id,
                 time |-> text(run.attempt_history[k].time)]],
        segments |->
            [i \in Segs |->
                [best_segment_time |-> text(run.segments[i].best_segment_time),
                 split_times |-> text(run.segments[i].split_times),
                 segment_history |->
                    {[id |-> e.id, time |-> text(e.time)] :
                        e \in run.segments[i].segment_history}]]]

\* What a time of a run file can hold: nothing, a time as the format for
\* files writes it, or the same time as the default format writes it, which
\* parse_time_string does not read.
TimeTexts(msecs) ==
    {NoText,
     <<format_time(TimeFormat_for_file, msecs, FALSE)>>,
     <<format_time(TimeFormat_default, msecs, FALSE)>>}

\* The documents loaded: one attempt on record, and for each segment a best
\* segment time, a personal-best split and the attempt's history entry.
InitLoad ==
    /\ TimerAside
    /\ \E at \in TimeTexts(NumSegments * 2000), pt \in TimeTexts(300),
          gold \in [Segs -> TimeTexts(1500)],
          hist \in [Segs -> TimeTexts(1700)] :
       \E pb \in {f \in [Segs -> UNION {TimeTexts((i + 1) * 2000) : i \in Segs}] :
                    \A i \in Segs : f[i] \in TimeTexts((i + 1) * 2000)} :
          conv = [pc |-> "load",
                  file |->
                    [attempt_count |-> 1,
                     attempt_history |->
                        << [id |-> 1, time |-> at, pause_time |-> pt] >>,
                     segments |->
                        [i \in Segs |->
                            [best_segment_time |-> gold[i],
                             personal_best_split_time |-> pb[i],
                             segment_history |->
                                {[id |-> 1, time |-> hist[i]]}]]],
                  run |-> [panic |-> FALSE],
                  saved |-> << >>]

\* WlSplitTimer::from_file: read_file; a panic ends the program.
Load ==
    /\ conv.pc = "load"
    /\ LET run == file_to_run(conv.file)
       IN conv' = [conv EXCEPT !.run = run,
                               !.pc = IF run.panic THEN "aborted" ELSE "save"]
    /\ UNCHANGED others

\* write_file of the run as it was loaded.
Save ==
    /\ conv.pc = "save"
    /\ conv' = [conv EXCEPT !.saved = RunFileText(conv.run), !.pc = "done"]
    /\ UNCHANGED others

NextLoad ==
    \/ Load
    \/ Save

\* A run file loaded, and the run saved again.
SpecLoad == InitLoad /\ [][NextLoad]_vars

\* ----------------------------------------------------- rows of the panel
\* SplitColor
SplitColors == {"Gain", "Loss", "Gold"}

\* A difference that counts a candidate equal to the reference as a gain.
diff_time_equal_is_gain(time, best) ==
    IF time # None /\ best # None
    THEN LET negative == best >= time
             diff == IF negative THEN best - time ELSE time - best
         IN [diff |-> diff, negative |-> negative,
             color |-> IF negative THEN "Gain" ELSE "Loss"]
    ELSE [diff |-> None, negative |-> FALSE, color |-> "Loss"]

\* diff_time: the size, the sign and the colour of a difference, a gain
\* where the reference is above the candidate, a loss otherwise (and with
\* no difference where either is absent).
diff_time(time, best) ==
    IF time # None /\ best # None
    THEN LET negative == best > time
             diff == IF negative THEN best - time ELSE time - best
         IN [diff |-> diff, negative |-> negative,
             color |-> IF negative THEN "Gain" ELSE "Loss"]
    ELSE [diff |-> None, negative |-> FALSE, color |-> "Loss"]

\* diff_time, the text of the difference it returns.
diff_text(d) ==
    IF d.diff = None THEN << >>
    ELSE format_time(TimeFormat_for_diff, d.diff, d.negative)

\* A row that is gold from the stored best segment time on down.
draw_segment_time_gold_on_equal(t, clock, index, current) ==
    LET timestamp ==
            IF t.personal_best_split_time[index] # None
            THEN t.personal_best_split_time[index]
            ELSE IF t.segment_history[index] = {}
            THEN t.split_time[index]
            ELSE None
        diff == diff_time(IF current THEN Timer_current_time(t, clock)
                          ELSE t.split_time[index],
                          t.personal_best_split_time[index])
        segment == get_segment_time(t, index)
        pb == t.best_segment_time[index]
        gold == IF segment # None /\ pb # None THEN segment <= pb ELSE FALSE
    IN [timestamp |-> timestamp,
        candidate |-> IF current THEN Timer_current_time(t, clock)
                      ELSE t.split_time[index],
        diff |-> diff,
        color |-> IF ~current /\ gold THEN "Gold" ELSE diff.color]

\* Surface::draw_segment_time, what it paints in a row: the time column (the
\* personal best split, or the split of this attempt for a segment without
\* history, or none, shown as "/"), and the difference to the personal best split of the
\* live time (current row) or of the recorded split (any other row), in
\* the colour of diff_time, or in gold for a row that is not current and
\* whose segment time is below the stored best segment time.
draw_segment_time(t, clock, index, current) ==
    LET timestamp ==
            IF t.personal_best_split_time[index] # None
            THEN t.personal_best_split_time[index]
            ELSE IF t.segment_history[index] = {}
            THEN t.split_time[index]
            ELSE None
        diff == diff_time(IF current THEN Timer_current_time(t, clock)
                          ELSE t.split_time[index],
                          t.personal_best_split_time[index])
        segment == get_segment_time(t, index)
        pb == t.best_segment_time[index]
        gold == IF segment # None /\ pb # None THEN segment < pb ELSE FALSE
    IN [timestamp |-> timestamp,
        candidate |-> IF current THEN Timer_current_time(t, clock)
                      ELSE t.split_time[index],
        diff |-> diff,
        color |-> IF ~current /\ gold THEN "Gold" ELSE diff.color]

\* The cells of every row, first to last: the title and the time of each,
\* the current one highlighted.
SegmentRows(current_segment) ==
    [k \in 1 .. 2 * NumSegments |->
        LET i == (k - 1) \div 2
        IN <<IF k % 2 = 1 THEN "title" ELSE "time", i, i = current_segment>>]

\* Surface::draw, what a pass paints into the canvas, in order, as
\* <<cell, row, current>>.  With no cursor: the background over the whole
\* buffer, the title of the run, the attempts counter, every row (the
\* current one, or row 0 when there is none, highlighted) and the line of
\* the sum of best segments.  With a cursor off the current index: the
\* titles of the row left and of the current row, the time of the row left
\* (not current: its recorded split), the attempts counter, the line of the
\* previous segment, and the time of the current row.  With the cursor on
\* the current index: the time of that row.  The clock comes last in each.
\* With a cursor and no current segment nothing is painted.
Surface_paint(t, cursor) ==
    LET i == t.current_split_index
        clock == <<"clock", NumSegments + 1, FALSE>>
    IN IF cursor = None
       THEN << <<"background", 0, FALSE>>, <<"game", 0, FALSE>>,
               <<"attempts", 0, FALSE>> >>
            \o SegmentRows(IF i = None THEN 0 ELSE i)
            \o << <<"sum_of_best", NumSegments + 2, FALSE>>, clock >>
       ELSE IF i = None THEN << >>
       ELSE IF cursor # i
            THEN << <<"title", cursor, FALSE>>, <<"title", i, TRUE>>,
                    <<"time", cursor, FALSE>>, <<"attempts", 0, FALSE>>,
                    <<"previous", NumSegments + 3, FALSE>>,
                    <<"time", i, TRUE>>, clock >>
       ELSE << <<"time", i, TRUE>>, clock >>

\* The sizes a Configure event gives the surface, in surface units.
SurfaceDimensions == {<<1, 1>>, <<2, 3>>}

\* Surface::draw, the rectangle of a full repaint: the whole buffer, which
\* is the surface at the scale read at the top of the pass.
full_damage(dimensions, scale) ==
    LET width == dimensions[1] * scale
        height == dimensions[2] * scale
    IN <<0, 0, width, height>>

\* ----------------------------------------------------------- differences
\* The times compared: absent, and millisecond counts on both sides of
\* every unit of the text.
DiffSamples ==
    {None, 0, 1, 999, 1000, 1001, 59999, 60000, MSEC_HOUR - 1, MSEC_HOUR,
     MSEC_HOUR + MSEC_MINUTE + MSEC_SECOND + 1}

InitDiff ==
    /\ TimerAside
    /\ \E time \in DiffSamples, best \in DiffSamples :
          conv = [pc |-> "diff", time |-> time, best |-> best,
                  text |-> << >>, color |-> "Loss"]

\* diff_time(time, best), the pair it returns.
Diff ==
    /\ conv.pc = "diff"
    /\ LET d == diff_time(conv.time, conv.best)
       IN conv' = [conv EXCEPT !.text = diff_text(d), !.color = d.color,
                               !.pc = "done"]
    /\ UNCHANGED others

NextDiff == Diff

\* A candidate compared with a reference.
SpecDiff == InitDiff /\ [][NextDiff]_vars

\* ------------------------------------------------------ the panel shown
\* What the buffer shows in the rows once a pass has painted: a row whose
\* time cell the pass paints shows what draw_segment_time compares, the
\* split recorded for it, or the running clock ("live") in the current row;
\* every other row shows what it showed before.
Surface_rows(t, clock, cursor, rows) ==
    LET painted == Surface_paint(t, cursor)
        Painted(cell) == \E k \in 1 .. Len(painted) : painted[k] = cell
    IN [i \in Segs |->
          IF Painted(<<"time", i, TRUE>>) THEN "live"
          ELSE IF Painted(<<"time", i, FALSE>>)
               THEN draw_segment_time(t, clock, i, FALSE).candidate
          ELSE rows[i]]

\* A panel that paints no row yet.
InitPanel ==
    /\ TimerAside
    /\ conv = [pc |-> "panel", rows |-> [i \in Segs |-> None]]

\* Surface::draw paints; the rows of the buffer are followed.
PanelPaint ==
    /\ Paint
    /\ conv' = [conv EXCEPT
                  !.rows = Surface_rows(timer, now, current_split, conv.rows)]

PanelCommand ==
    /\ ~exit
    /\ \/ Start
       \/ Reset
       \/ SplitCall
       \/ SplitReturn

NextPanel ==
    \/ Tick
    \/ PanelCommand
    \/ RenderTop
    \/ RenderEvents
    \/ RenderBuffer
    \/ RenderLock
    \/ PanelPaint
    \/ RenderCommit

\* The render loop and the commands of an attempt, with the clock running
\* and the rows of the buffer followed from pass to pass.
SpecPanel == InitPanel /\ [][NextPanel]_vars

\* ------------------------------------------------------------ the timer lock
\* The two threads at the lock, each acquisition and each release a step of
\* its own.  The lines are those that move the render loop between its paths:
\* a start makes it draw, a reset sends the next pass through draw's early
\* return, a quit ends both threads.
LockLines == {"start", "reset", "quit"}

\* The lines the client writes in all.
MaxRequests == 3

\* One client is connected.
InitLock ==
    /\ timer = FreshTimer
    /\ now = 0
    /\ file = RunFile(timer)
    /\ writable = TRUE
    /\ lock = "none"
    /\ current_split = None
    /\ exit = FALSE
    /\ render = [pc |-> "top", extra_frame |-> FALSE, damage |-> << >>,
                 scale |-> 1, current_scale |-> 1]
    /\ socket = [bound |-> TRUE,
                 conns |-> << [sent |-> << >>, read |-> 0, open |-> TRUE] >>,
                 received |-> << >>, applied |-> << >>]
    /\ conv = [pc |-> "idle"]

\* The client writes a line.
Request ==
    /\ LinesSent(socket.conns) < MaxRequests
    /\ \E line \in LockLines :
          socket' = [socket EXCEPT !.conns[1].sent = Append(@, line),
                                   !.received = Append(@, line)]
    /\ UNCHANGED <<timer, now, file, writable, lock, current_split, exit, render, conv>>

\* The listener has read a line it has not handled yet: it waits at
\* timer.lock().
ListenerWaits ==
    /\ ~exit
    /\ render.pc # "exited"
    /\ lock # "listener"
    /\ socket.conns[1].read < Len(socket.conns[1].sent)

\* handle_stream_response, timer.lock().unwrap() of the arm of the line read.
ListenLock ==
    /\ ListenerWaits
    /\ lock = "none"
    /\ lock' = "listener"
    /\ UNCHANGED <<timer, now, file, writable, current_split, exit, render, socket, conv>>

\* The rest of the arm: the method called through the guard, and the guard
\* dropped at the end of the statement.
ListenHandle ==
    /\ lock = "listener"
    /\ LET line == socket.conns[1].sent[socket.conns[1].read + 1]
           w == handle_line(Self, line, now, writable)
       IN /\ timer' = w.timer
          /\ file' = w.file
          /\ exit' = w.exit
          /\ socket' = [socket EXCEPT !.conns[1].read = @ + 1,
                                      !.applied = Append(@, line)]
    /\ lock' = "none"
    /\ UNCHANGED <<now, writable, current_split, render, conv>>

NextLock ==
    \/ Request
    \/ ListenLock
    \/ ListenHandle
    \/ RenderStep

SpecLock == InitLock /\ [][NextLock]_vars

\* Both threads scheduled.  A thread that holds the lock goes on; a thread
\* that waits for the lock gets it when the lock is free again and again: the
\* listener holds it for one call and then blocks on the stream, the render
\* loop sleeps with the lock free at the end of every tick.
FairLock ==
    /\ SpecLock
    /\ SF_vars(RenderStep)
    /\ SF_vars(ListenLock)
    /\ WF_vars(ListenHandle)

\* ------------------------------------------------- events of the layer surface
\* RenderEvent, and the cell next_render_event that holds the one pending.
NoEvent == [kind |-> "None", width |-> 0, height |-> 0]

RenderEvent_Closed == [kind |-> "Closed", width |-> 0, height |-> 0]

RenderEvent_Configure(d) == [kind |-> "Configure", width |-> d[1], height |-> d[2]]

\* What the compositor sends to the layer surface.
LayerSurfaceEvents ==
    {RenderEvent_Closed} \cup {RenderEvent_Configure(d) : d \in SurfaceDimensions}

\* The closure that stores every Configure.
layer_surface_event_unguarded(next, event) ==
    CASE event.kind = "Closed"    -> RenderEvent_Closed
      [] event.kind = "Configure" -> event
      [] OTHER                    -> next

\* Surface::new, the closure given to layer_surface.quick_assign: Closed is
\* stored whatever is pending; a Configure is acknowledged and stored unless
\* Closed is pending.
layer_surface_event(next, event) ==
    CASE event.kind = "Closed" -> RenderEvent_Closed
      [] event.kind = "Configure" /\ next # RenderEvent_Closed -> event
      [] OTHER -> next

\* Surface::handle_events: the pending event is taken out of the cell; a
\* Configure sets the dimensions.
Surface_handle_events(next, dimensions) ==
    CASE next.kind = "Closed" ->
            [event |-> "Close", dimensions |-> dimensions]
      [] next.kind = "Configure" ->
            [event |-> "Redraw", dimensions |-> <<next.width, next.height>>]
      [] OTHER ->
            [event |-> "Idle", dimensions |-> dimensions]

\* The surface as Surface::new leaves it: nothing pending, no dimensions.
InitEvents ==
    /\ TimerAside
    /\ conv = [pc |-> "surface", next_render_event |-> NoEvent,
               last |-> NoEvent, dimensions |-> <<0, 0>>]

\* The dispatch at the end of a tick hands an event of the compositor to the
\* closure; last is the event handed over most recently since the poll.
Deliver ==
    /\ render.pc \in {"top", "skipped"}
    /\ \E event \in LayerSurfaceEvents :
          conv' = [conv EXCEPT
                     !.next_render_event = layer_surface_event(@, event),
                     !.last = event]
    /\ UNCHANGED others

\* App::run from handle_events to the call of draw, with the event taken from
\* the cell.
PollEvents ==
    /\ render.pc = "events"
    /\ lock = "none"
    /\ LET r == Surface_handle_events(conv.next_render_event, conv.dimensions)
           timer_running == timer.phase = "Running"
           draw == App_run_draw(r.event = "Redraw", timer_running,
                                render.extra_frame)
       IN /\ render' = IF r.event = "Close"
                       THEN [render EXCEPT !.pc = "done"]
                       ELSE [render EXCEPT
                                !.pc = IF draw THEN "buffer" ELSE "top",
                                !.extra_frame = timer_running]
          /\ conv' = [conv EXCEPT !.next_render_event = NoEvent,
                                  !.last = NoEvent,
                                  !.dimensions = r.dimensions]
    /\ UNCHANGED <<timer, now, file, writable, lock, current_split, exit, socket>>

NextEvents ==
    \/ Deliver
    \/ PollEvents
    \/ RenderTop
    \/ RenderBuffer
    \/ RenderLock
    \/ RenderPaint
    \/ RenderCommit
    \/ RenderExit
    \/ Start
    \/ Quit

\* The render loop with the events of its surface.
SpecEvents == InitEvents /\ [][NextEvents]_vars

\* ----------------------------------------------------------------- claims
\* The id Run::add_attempt gives the next attempt.
NextAttemptId(t) ==
    LET ids == {t.attempt_history[k].index : k \in 1 .. Len(t.attempt_history)}
    IN (IF ids = {} THEN 0 ELSE MaxOf(ids)) + 1

\* The part of the Run the claims call its data.
RunData(t) ==
    <<t.attempt_count, t.attempt_history, t.personal_best_split_time,
      t.best_segment_time, t.segment_history>>

\* C1: a split applied while Running at an index i that is not the last
\* records the current elapsed time as segment i's split time, moves the
\* index to i + 1 and leaves the phase Running, also once split has returned.
C1_SplitAdvances ==
    [][
        /\ (SplitCall /\ timer.phase = "Running"
                      /\ timer.current_split_index < NumSegments - 1)
           => /\ timer'.split_time[timer.current_split_index]
                     = Timer_current_time(timer, now)
              /\ timer'.current_split_index = timer.current_split_index + 1
              /\ timer'.phase = "Running"
        /\ (SplitReturn /\ timer.phase = "Running") => timer' = timer
      ]_vars

C1_Witness ==
    /\ lock = "none"
    /\ timer.phase = "Running"
    /\ timer.current_split_index = 1
    /\ timer.split_time[0] = 1

\* C2: whenever the lock is not held by a command handler the phase is not
\* Ended.
C2_EndedOnlyUnderLock == lock = "none" => timer.phase # "Ended"

\* The transient state: the last split made, the lock still held.
C2_Witness == lock = "listener" /\ timer.phase = "Ended"

\* C3: a start applied while NotRunning gives phase Running, index 0 and an
\* elapsed time of zero.
C3_StartFromZero ==
    [][(Start /\ timer.phase = "NotRunning")
          => /\ timer'.phase = "Running"
             /\ timer'.current_split_index = 0
             /\ Timer_current_time(timer', now') = 0
      ]_vars

\* A second attempt started when the clock has advanced.
C3_Witness ==
    /\ timer.phase = "Running"
    /\ timer.current_split_index = 0
    /\ now > 0
    /\ Timer_current_time(timer, now) = 0

\* C4: pause applied while Running gives Paused, applied while Paused gives
\* Running; the index and the split times stay as they were.
C4_PauseToggles ==
    (lock = "none" /\ timer.phase \in {"Running", "Paused"})
    => LET t == pause(World, now).timer
       IN /\ timer.phase = "Running" => t.phase = "Paused"
          /\ timer.phase = "Paused" => t.phase = "Running"
          /\ t.current_split_index = timer.current_split_index
          /\ t.split_time = timer.split_time

\* Running again after a pause taken later than the start, one split made.
C4_Witness ==
    /\ timer.phase = "Running"
    /\ timer.time_paused_at > 0
    /\ timer.current_split_index = 1
    /\ timer.split_time[0] # None

\* C5 as stated: a skip applied while Running at index i moves the index to
\* i + 1 and leaves segment i without a split time; applied in any other
\* phase it changes nothing.
C5_Original ==
    [][
        /\ (Skip /\ timer.phase = "Running")
           => /\ timer'.current_split_index = timer.current_split_index + 1
              /\ timer'.split_time[timer.current_split_index] = None
        /\ (Skip /\ timer.phase # "Running") => (timer' = timer /\ file' = file)
      ]_vars

\* C5, amended: a skip applied while Running or Paused at an index i that is
\* not the last moves the index to i + 1, leaves segment i without a split
\* time and changes neither the phase nor the Run data; any other skip
\* changes nothing; and when the attempt is recorded, no history entry of a
\* segment without a split time holds a time under the attempt's id.
C5_SkipAdvances ==
    [][
        /\ (Skip /\ timer.phase \in {"Running", "Paused"}
                 /\ timer.current_split_index < NumSegments - 1)
           => /\ timer'.current_split_index = timer.current_split_index + 1
              /\ timer'.split_time[timer.current_split_index] = None
              /\ timer'.phase = timer.phase
              /\ RunData(timer') = RunData(timer)
              /\ file' = file
        /\ (Skip /\ ~(timer.phase \in {"Running", "Paused"}
                      /\ timer.current_split_index < NumSegments - 1))
           => (timer' = timer /\ file' = file)
        /\ ((Reset \/ SplitReturn) /\ timer.phase # "NotRunning")
           => \A i \in Segs :
                 timer.split_time[i] = None
                 => ~\E e \in timer'.segment_history[i] :
                        e.id = NextAttemptId(timer) /\ e.time # None
      ]_vars

\* An attempt with segment 0 skipped has been recorded: its entry is empty.
C5_Witness ==
    /\ timer.phase = "NotRunning"
    /\ \E e \in timer.segment_history[0] : e.time = None

\* C6: reset(false) leaves the timer NotRunning without a current segment and
\* leaves the attempt history, every segment's history, personal-best split
\* and best segment time, and the run file as they were.
C6_ResetNoUpdateKeepsRun ==
    [][ResetNoUpdate
          => /\ timer'.phase = "NotRunning"
             /\ timer'.current_split_index = None
             /\ timer'.attempt_history = timer.attempt_history
             /\ timer'.segment_history = timer.segment_history
             /\ timer'.personal_best_split_time = timer.personal_best_split_time
             /\ timer'.best_segment_time = timer.best_segment_time
             /\ file' = file
      ]_vars

\* An attempt was started and then discarded: it is counted, not recorded,
\* and the file still holds the count from before it.
C6_Witness ==
    /\ lock = "none"
    /\ timer.phase = "NotRunning"
    /\ timer.attempt_count > Len(timer.attempt_history)
    /\ file.attempt_count < timer.attempt_count

\* C7: reset(true) during an attempt leaves the timer NotRunning, appends the
\* abandoned attempt (no final time) to the attempt history, enters every
\* split made so far in its segment's history under that attempt's id, and
\* writes the run file.
C7_ResetRecordsAttempt ==
    [][(Reset /\ timer.phase \in {"Running", "Paused"})
          => /\ timer'.phase = "NotRunning"
             /\ timer'.current_split_index = None
             /\ timer'.attempt_history
                    = Append(timer.attempt_history,
                             [index |-> NextAttemptId(timer), time |-> None])
             /\ \A i \in Segs :
                    (i < timer.current_split_index /\ timer.split_time[i] # None)
                    => [id |-> NextAttemptId(timer),
                        time |-> timer.split_time[i]
                                    - LastSplitBefore(timer.split_time, i)]
                           \in timer'.segment_history[i]
             /\ (writable => file' = RunFile(timer'))
      ]_vars

\* An abandoned attempt with a split made is on record and on storage.
C7_Witness ==
    /\ timer.phase = "NotRunning"
    /\ Len(timer.attempt_history) > 0
    /\ LET a == timer.attempt_history[Len(timer.attempt_history)]
       IN /\ a.time = None
          /\ \E e \in timer.segment_history[0] : e.id = a.index /\ e.time # None
    /\ file = RunFile(timer)

\* C8 as stated, for a reset that finds an attempt in progress: after
\* reset(false) followed at once by start, attempt_count is what it was before
\* the reset and the attempt history has not grown.
C8_Original ==
    (lock = "none" /\ timer.phase \in {"Running", "Paused"})
    => LET w == start(reset(World, FALSE, now, writable), now)
       IN /\ w.timer.attempt_count = timer.attempt_count
          /\ w.timer.attempt_history = timer.attempt_history

\* C8, amended: after reset(false) followed at once by start, attempt_count
\* is one more than before the reset (the start counts the new attempt) and
\* the attempt history has not grown.
C8_RestartCountsAttempt ==
    lock = "none"
    => LET w == start(reset(World, FALSE, now, writable), now)
       IN /\ w.timer.phase = "Running"
          /\ w.timer.attempt_count = timer.attempt_count + 1
          /\ w.timer.attempt_history = timer.attempt_history

\* Two attempts started and none recorded: the first was reset without
\* recording and the second started after it.
C8_Witness ==
    /\ timer.phase = "Running"
    /\ timer.attempt_count = 2
    /\ timer.attempt_history = << >>

\* C9 as stated: over the split that completes the last segment attempt_count
\* grows by one and one attempt is appended.
C9_Original ==
    [][
        /\ SplitCall
           => /\ timer'.attempt_count = timer.attempt_count
              /\ timer'.attempt_history = timer.attempt_history
        /\ (SplitReturn /\ timer.phase = "Ended")
           => /\ timer'.attempt_count = timer.attempt_count + 1
              /\ Len(timer'.attempt_history) = Len(timer.attempt_history) + 1
      ]_vars

\* C9, amended: over the split that completes the last segment exactly one
\* attempt, holding the final time, is appended to the attempt history and
\* attempt_count stays as it is (the attempt was counted when it started).
C9_FinalSplitRecordsAttempt ==
    [][
        /\ SplitCall
           => /\ timer'.attempt_count = timer.attempt_count
              /\ timer'.attempt_history = timer.attempt_history
        /\ (SplitReturn /\ timer.phase = "Ended")
           => /\ timer'.attempt_count = timer.attempt_count
              /\ timer'.attempt_history
                    = Append(timer.attempt_history,
                             [index |-> NextAttemptId(timer),
                              time |-> timer.split_time[NumSegments - 1]])
              /\ timer'.phase = "NotRunning"
      ]_vars

\* A second attempt has run to its end and is on record with its time.
C9_Witness ==
    /\ lock = "none"
    /\ timer.phase = "NotRunning"
    /\ Len(timer.attempt_history) > 0
    /\ LET a == timer.attempt_history[Len(timer.attempt_history)]
       IN a.index = 2 /\ a.time # None

\* C10: whenever no command holds the lock the current segment index is
\* absent or within 0 .. NumSegments - 1, and so is every index a draw pass
\* starting there uses, the cursor it kept included, with or without a
\* change of scale.
C10_IndexInRange ==
    lock = "none"
    => /\ timer.current_split_index \in Segs \cup {None}
       /\ current_split \in Segs \cup {None}
       /\ DrawIndexes(timer, current_split) \subseteq Segs
       /\ DrawIndexes(timer, None) \subseteq Segs

\* The cursor still at the last row, the timer back at row 0 of a new attempt.
C10_Witness ==
    /\ lock = "none"
    /\ current_split = NumSegments - 1
    /\ timer.current_split_index = 0
    /\ timer.attempt_count = 2

\* The recognised lines the listener has read, connection after connection
\* in the order the connections were made.
LinesRead(conns) ==
    LET IsCommand(line) == line \in Commands
        r[k \in 0 .. Len(conns)] ==
            IF k = 0 THEN << >>
            ELSE r[k - 1] \o SelectSeq(SubSeq(conns[k].sent, 1, conns[k].read),
                                       IsCommand)
    IN r[Len(conns)]

IsPrefix(a, b) == Len(a) <= Len(b) /\ a = SubSeq(b, 1, Len(a))

\* C11 as stated: the commands applied to the timer are, in order, the first
\* of the recognised lines in the order they reached the socket.
C11_Original == IsPrefix(socket.applied, socket.received)

\* C11, amended: the commands applied to the timer are the recognised lines
\* read from the connections, one connection at a time in the order the
\* connections were made and each to its end before the next, up to and
\* including the first quit: in that order none is dropped, duplicated or
\* moved, and nothing is applied after a quit.
C11_AppliedInStreamOrder ==
    LET conns == socket.conns
    IN /\ socket.applied = LinesRead(conns)
       /\ \A k \in 1 .. Len(conns) :
             conns[k].read > 0
             => \A j \in 1 .. k - 1 : /\ ~conns[j].open
                                      /\ conns[j].read = Len(conns[j].sent)
       /\ \A i \in 1 .. Len(socket.applied) - 1 : socket.applied[i] # "quit"
       /\ exit <=> (socket.applied # << >>
                    /\ socket.applied[Len(socket.applied)] = "quit")

\* Two connections served one after the other, the line of the second sent
\* before the line of the first.
C11_Witness ==
    /\ Len(socket.conns) = 2
    /\ socket.applied = <<"start", "split">>
    /\ socket.received = <<"split", "start">>
    /\ timer.phase = "Running"
    /\ timer.current_split_index = 1

\* C12: once quit has been applied, the render loop that comes to the top of
\* a tick goes no further than reading the flag; from then on it paints
\* nothing and moves no cursor; the loop ends, and the socket file is gone
\* when the process has ended.
C12_QuitStopsRender ==
    /\ [][(exit /\ render.pc \in {"top", "skipped"} /\ render' # render)
             => render'.pc = "done"]_vars
    /\ [][render.pc \in {"done", "exited"}
             => /\ render'.pc \in {"done", "exited"}
                /\ render'.damage = render.damage
                /\ current_split' = current_split
                /\ lock' # "render"]_vars
    /\ [](render.pc = "exited" => ~socket.bound)
    /\ exit ~> (render.pc = "exited" /\ ~socket.bound)

\* The process has ended after a quit that found an attempt in progress.
C12_Witness ==
    /\ exit
    /\ render.pc = "exited"
    /\ ~socket.bound
    /\ timer.phase = "Running"

\* C13 as stated: in no state is the render loop painting while it holds the
\* lock.
C13_Original == render.pc = "paint" => lock # "render"

\* C13, amended: the renderer holds the lock for the whole of the painting
\* (from before the first cell is rasterised until the cursor is set after
\* the last) and at no other point of the tick; while it holds it no command
\* is applied, so a command arriving during the painting waits for its end.
C13_LockHeldWhilePainting ==
    /\ [](lock = "render" <=> render.pc = "paint")
    /\ [][lock = "render"
             => (timer' = timer /\ file' = file /\ exit' = exit)]_vars

\* The renderer painting, under the lock, during an attempt.
C13_Witness ==
    /\ render.pc = "paint"
    /\ lock = "render"
    /\ timer.phase = "Running"

\* C14: the renderer does not hold the lock while it gets the buffer from the
\* pool, nor while it attaches the buffer, submits the damage and commits.
C14_NoLockAcrossSystemCalls ==
    render.pc \in {"buffer", "commit"} => lock # "render"

\* The renderer about to commit while the listener, in a split, has the lock.
C14_Witness ==
    /\ render.pc = "commit"
    /\ lock = "listener"
    /\ Len(render.damage) > 0

\* C15 as stated: a pass that finds the cursor at the current index collects
\* one damage rectangle.
C15_Original ==
    [][(RenderPaint /\ current_split # None
                    /\ current_split = timer.current_split_index)
          => Len(render'.damage) = 1]_vars

\* C15, amended: a pass that has its buffer and finds the cursor at the
\* current index collects two damage rectangles, the time cell of the current
\* row and the clock, and not the whole surface, and goes on to submit them.
C15_DamageOfUnchangedRow ==
    [][(RenderPaint /\ current_split # None
                    /\ current_split = timer.current_split_index)
          => /\ render'.damage = << <<"time", current_split>>,
                                    <<"clock", NumSegments + 1>> >>
             /\ render'.pc = "commit"
             /\ current_split' = current_split]_vars

\* Such a pass about to submit its damage, at the second row.
C15_Witness ==
    /\ render.pc = "commit"
    /\ current_split = 1
    /\ render.damage = << <<"time", 1>>, <<"clock", NumSegments + 1>> >>

\* a is at most b, an absent time counting as larger than any time.
GoldLE(a, b) == b = None \/ (a # None /\ a <= b)

\* C16: no operation on the timer raises a segment's best segment time, an
\* absent one counting as larger than any time.
C16_GoldNeverIncreases ==
    [][\A i \in Segs : GoldLE(timer'.best_segment_time[i],
                              timer.best_segment_time[i])]_vars

\* A loaded run whose first gold has been lowered and whose second has been
\* kept through two more recorded attempts.
C16_Witness ==
    /\ timer.phase = "NotRunning"
    /\ timer.best_segment_time[0] = 0
    /\ timer.best_segment_time[1] = 1
    /\ Len(timer.attempt_history) = 2
    /\ \E e \in timer.segment_history[1] : e.time # None /\ e.time > 1

\* The segment time a split taken now would record for the current segment:
\* the current time less the split before it (defined at the first segment
\* and where that split is present).
SegmentTimeNow(t, clock) ==
    LET i == t.current_split_index
    IN IF i = 0 THEN Timer_current_time(t, clock)
       ELSE IF t.split_time[i - 1] = None THEN None
       ELSE Timer_current_time(t, clock) - t.split_time[i - 1]

\* The segment time of the split recorded for segment i.
SegmentTime(t, i) ==
    IF t.split_time[i] = None THEN None
    ELSE IF i = 0 THEN t.split_time[0]
    ELSE IF t.split_time[i - 1] = None THEN None
    ELSE t.split_time[i] - t.split_time[i - 1]

\* C17 as stated: a split whose segment time is below the segment's stored
\* gold leaves the stored gold at that segment time.
C17_Original ==
    (lock = "none" /\ timer.phase = "Running")
    => LET i == timer.current_split_index
           seg == SegmentTimeNow(timer, now)
           gold == timer.best_segment_time[i]
       IN (seg # None /\ gold # None /\ seg < gold)
          => split(World, now, writable).timer.best_segment_time[i] = seg

\* C17, amended: a split whose segment time is below the segment's stored gold
\* leaves the stored gold as it is; the gold becomes that segment time when
\* the attempt is recorded, by reset(true) or by the split that ends the run;
\* reset(false) leaves it as it is.
C17_GoldUpdatedWhenRecorded ==
    [][
        /\ (SplitCall \/ ResetNoUpdate \/ (SplitReturn /\ timer.phase # "Ended"))
           => timer'.best_segment_time = timer.best_segment_time
        /\ ((Reset /\ timer.phase \in {"Running", "Paused"})
              \/ (SplitReturn /\ timer.phase = "Ended"))
           => \A i \in Segs :
                 (/\ SegmentTime(timer, i) # None
                  /\ timer.best_segment_time[i] # None
                  /\ SegmentTime(timer, i) < timer.best_segment_time[i])
                 => timer'.best_segment_time[i] = SegmentTime(timer, i)
      ]_vars

\* An abandoned second attempt has lowered the gold of the first segment and
\* is on storage.
C17_Witness ==
    /\ timer.phase = "NotRunning"
    /\ timer.best_segment_time[0] = 0
    /\ [id |-> 2, time |-> 0] \in timer.segment_history[0]
    /\ timer.attempt_history[Len(timer.attempt_history)].time = None
    /\ file.segments[0].best_segment_time = 0

\* The final times of the attempts on record that ran to the end.
CompletedTimes(t) ==
    {t.attempt_history[k].time : k \in 1 .. Len(t.attempt_history)} \ {None}

\* C18: the personal-best splits are those of the best attempt that ran to the
\* end: their last is the least final time on record (absent when there is
\* none); they change only in the split that ends an attempt whose final time
\* is below the stored one (or none is stored), to that attempt's splits; and
\* reset(true) on an unfinished attempt leaves them.
C18_PBIsBestCompleted ==
    /\ [](LET pb == timer.personal_best_split_time[NumSegments - 1]
              done == CompletedTimes(timer)
          IN IF done = {} THEN pb = None
             ELSE pb # None /\ pb \in done /\ \A x \in done : pb <= x)
    /\ [][timer'.personal_best_split_time # timer.personal_best_split_time
             => /\ SplitReturn
                /\ timer.phase = "Ended"
                /\ LET pb == timer.personal_best_split_time[NumSegments - 1]
                   IN pb = None \/ timer.split_time[NumSegments - 1] < pb
                /\ timer'.personal_best_split_time = timer.split_time]_vars
    /\ [][(Reset /\ timer.phase \in {"Running", "Paused"})
             => timer'.personal_best_split_time
                    = timer.personal_best_split_time]_vars

\* A loaded run whose personal best has been beaten once.
C18_Witness ==
    /\ timer.phase = "NotRunning"
    /\ CompletedTimes(timer) = {NumSegments, 1}
    /\ timer.personal_best_split_time[NumSegments - 1] = 1
    /\ timer.personal_best_split_time[0] = 0

\* The sum of f over the set S of segment indexes.
RECURSIVE SumOver(_, _)
SumOver(S, f) ==
    IF S = {} THEN 0
    ELSE LET i == CHOOSE x \in S : TRUE
         IN (IF f[i] = None THEN 0 ELSE f[i]) + SumOver(S \ {i}, f)

\* What C19 says best_possible_time is.
BestPossibleAsStated(t) ==
    LET all == DOMAIN t.best_segment_time
        i == t.current_split_index
        before == IF i = None \/ i = 0 THEN 0
                  ELSE IF t.split_time[i - 1] = None THEN 0
                  ELSE t.split_time[i - 1]
        rest == IF i = None THEN all ELSE {j \in all : j >= i}
    IN before + SumOver(rest, t.best_segment_time)

\* The scenario of C19: golds of 1000, 1500 and 2000 ms, the first segment
\* split at 1200 ms, the second current.
GoldsScenario ==
    [current_split_index |-> 1,
     split_time |-> (0 :> 1200 @@ 1 :> None @@ 2 :> None),
     best_segment_time |-> (0 :> 1000 @@ 1 :> 1500 @@ 2 :> 2000)]

\* C19: best_possible_time is the split time of the segment before the
\* current one (zero at index 0, without a current segment, and where that
\* split is absent) plus the best segment times from the current index on,
\* an absent one adding nothing; at the first segment it is
\* sum_of_best_segments; in the scenario the two are 4700 and 4500.
C19_BestPossibleTime ==
    /\ best_possible_time(timer) = BestPossibleAsStated(timer)
    /\ sum_of_best_segments(timer)
          = SumOver(Segs, timer.best_segment_time)
    /\ timer.current_split_index \in {None, 0}
          => best_possible_time(timer) = sum_of_best_segments(timer)
    /\ sum_of_best_segments(GoldsScenario) = 4500
    /\ best_possible_time(GoldsScenario) = 4700
    /\ best_possible_time([GoldsScenario EXCEPT !.current_split_index = 0])
          = 4500

\* At the second segment of a loaded run, the first split later than its
\* gold: the best possible time is above the sum of best segments.
C19_Witness ==
    /\ timer.phase = "Running"
    /\ timer.current_split_index = 1
    /\ timer.split_time[0] = 2
    /\ best_possible_time(timer) = 3
    /\ sum_of_best_segments(timer) = 2

\* best_possible_time as it stood at index k of the attempt now at its end:
\* the splits before k and the golds are what they were then.
BestPossibleAt(t, k) ==
    best_possible_time([t EXCEPT !.current_split_index = k])

\* C20 as stated: the final time of an attempt that has run to its end is at
\* least best_possible_time as it stood at each index of the attempt.
C20_Original ==
    timer.phase = "Ended"
    => \A k \in Segs :
          timer.split_time[NumSegments - 1] >= BestPossibleAt(timer, k)

\* C20, amended: the final time of an attempt that has run to its end is at
\* least best_possible_time as it stood at index k whenever every segment
\* from k on was split, not skipped, and took at least its stored gold (an
\* absent gold counting as zero); an attempt that takes a segment in less
\* than its gold may end below it.
C20_BoundUnlessGoldBeaten ==
    timer.phase = "Ended"
    => \A k \in Segs :
          (\A j \in Segs :
              j >= k => /\ timer.split_time[j] # None
                        /\ timer.split_time[j]
                              - LastSplitBefore(timer.split_time, j)
                           >= Msecs(timer.best_segment_time[j]))
          => timer.split_time[NumSegments - 1] >= BestPossibleAt(timer, k)

\* An attempt at its end in which each segment took exactly its gold, ending
\* at the best possible time it had at its first and at its last segment.
C20_Witness ==
    /\ timer.phase = "Ended"
    /\ timer.best_segment_time = [i \in Segs |-> 1]
    /\ timer.split_time = [i \in Segs |-> i + 1]
    /\ BestPossibleAt(timer, 0) = NumSegments
    /\ BestPossibleAt(timer, NumSegments - 1) = NumSegments

\* The segment times of the attempt, by segment.
SegmentTimes(t) == [i \in Segs |-> get_segment_time(t, i)]

\* C21 as stated: the segment time of segment i is its split time less that
\* of segment i - 1 (the split time itself for i = 0), and when the run has
\* ended the segment times of the segments that were split add up to the
\* final time.
C21_Original ==
    /\ \A i \in Segs :
          (timer.split_time[i] # None /\ (i > 0 => timer.split_time[i - 1] # None))
          => get_segment_time(timer, i)
                = timer.split_time[i] - (IF i = 0 THEN 0 ELSE timer.split_time[i - 1])
    /\ timer.phase = "Ended"
          => SumOver({i \in Segs : timer.split_time[i] # None},
                     SegmentTimes(timer))
                = timer.split_time[NumSegments - 1]

\* C21, amended: the segment time of segment i is its split time less that of
\* segment i - 1 (the split time itself for i = 0) and is absent when either
\* is; when the run has ended with no segment skipped, the segment times of
\* all segments add up to the final time.
C21_SegmentTimesTelescope ==
    /\ \A i \in Segs :
          IF timer.split_time[i] # None /\ (i > 0 => timer.split_time[i - 1] # None)
          THEN get_segment_time(timer, i)
                  = timer.split_time[i]
                       - (IF i = 0 THEN 0 ELSE timer.split_time[i - 1])
          ELSE get_segment_time(timer, i) = None
    /\ get_segment_time(timer, NumSegments) = None
    /\ (timer.phase = "Ended" /\ \A i \in Segs : timer.split_time[i] # None)
          => /\ \A i \in Segs : get_segment_time(timer, i) # None
             /\ SumOver(Segs, SegmentTimes(timer))
                   = timer.split_time[NumSegments - 1]

\* A run that has ended with every segment split, the clock having advanced
\* before each split.
C21_Witness ==
    /\ timer.phase = "Ended"
    /\ timer.split_time = [i \in Segs |-> i + 1]
    /\ get_segment_time(timer, NumSegments - 1) = 1
    /\ SumOver(Segs, SegmentTimes(timer)) = NumSegments

\* C22: after construction the run file changes only in reset(true) and in
\* the split that completes the last segment, each of which leaves on
\* storage that takes the write the document of the run as it then is;
\* start, pause, skip, a split that does not end the run, reset(false) and
\* quit leave the file as it is.
C22_WritesOnlyAtBoundaries ==
    [][
        /\ file' # file => (Reset \/ (SplitReturn /\ timer.phase = "Ended"))
        /\ (writable /\ (Reset \/ (SplitReturn /\ timer.phase = "Ended")))
              => file' = RunFile(timer')
        /\ quit(Self).file = file
      ]_vars

\* A run created, abandoned by reset(true) and saved with that attempt;
\* the second attempt, started and split once since, is not on storage.
C22_Witness ==
    /\ timer.phase = "Running"
    /\ timer.current_split_index = 1
    /\ timer.split_time[0] # None
    /\ timer.attempt_count = 2
    /\ file.attempt_count = 1
    /\ Len(file.attempt_history) = 1
    /\ file.attempt_history[1].time = 0
    /\ file.segments[0].segment_history = {}

\* C23: when the write of the run file fails in reset(true) or in the split
\* that ends the run, the operation leaves the timer as it does when the
\* write succeeds (NotRunning, the attempt in the history, the bests
\* updated), the file as it was and the lock free; and every command handled
\* after it takes the timer where it does after a write that succeeded.
C23_WriteFailureSwallowed ==
    [][
        (~writable /\ (Reset \/ (SplitReturn /\ timer.phase = "Ended")))
        => /\ timer' = reset(World, TRUE, now, TRUE).timer
           /\ timer.phase # "NotRunning"
                 => /\ timer'.phase = "NotRunning"
                    /\ Len(timer'.attempt_history)
                          = Len(timer.attempt_history) + 1
                    /\ timer'.best_segment_time
                          = Timer_update_best_segments(timer).best_segment_time
           /\ file' = file
           /\ lock' = "none"
           /\ \A line \in Lines :
                 handle_line([timer |-> timer', file |-> file', exit |-> exit],
                             line, now, TRUE).timer
                    = handle_line(
                         [timer |-> reset(World, TRUE, now, TRUE).timer,
                          file |-> reset(World, TRUE, now, TRUE).file,
                          exit |-> exit],
                         line, now, TRUE).timer
      ]_vars

\* A first run on storage that failed when it ended: the attempt is in the
\* timer's history with its bests, the file still holds the run as it was
\* created, and a second attempt has been started since.
C23_Witness ==
    /\ ~writable
    /\ timer.phase = "Running"
    /\ timer.attempt_count = 2
    /\ Len(timer.attempt_history) = 1
    /\ timer.attempt_history[1].time # None
    /\ timer.best_segment_time[0] # None
    /\ file = RunFile(FreshTimer)

\* C24 as stated: a pass of draw that gets no pixel buffer paints nothing,
\* submits no damage, commits nothing and leaves the timer as it is; and
\* after it draw is called again (unless the loop ends first).
C24_Original ==
    /\ [][(RenderBuffer /\ render'.pc = "skipped")
             => /\ render'.damage = << >>
                /\ timer' = timer
                /\ lock' = lock]_vars
    /\ (render.pc = "skipped") ~> (render.pc \in {"buffer", "done", "exited"})

\* C26 as stated: for every time m, the text format_time(m, false) gives is
\* parsed by parse_time_string to m.
C26_Original ==
    conv.pc = "done" => conv.parsed = conv.time

\* C26, amended: the text format_time(m, false) gives is parsed to m when
\* the format does not shorten (the format for files) or m is an hour or
\* more; the shortened text of a smaller m is rejected by parse_time_string.
C26_RoundTripUnshortened ==
    conv.pc = "done"
    => IF ~conv.self.allow_shorten \/ conv.time >= MSEC_HOUR
       THEN conv.parsed = conv.time
       ELSE conv.parsed = None

\* The last millisecond of the first hour has gone through the format for
\* files and back.
C26_Witness ==
    /\ conv.pc = "done"
    /\ conv.self = TimeFormat_for_file
    /\ conv.time = MSEC_HOUR - 1
    /\ conv.text = <<"0", "0", ":", "5", "9", ":", "5", "9", ".", "9", "9", "9">>
    /\ conv.parsed = conv.time

\* C25 as stated: whatever the times of the run file hold, a time that does
\* not parse is passed over or taken as absent, and the load completes.
C25_Original ==
    conv.pc # "aborted"

\* The text holds the time msecs, in one of the formats of the program.
Denotes(text, msecs) ==
    /\ text # NoText
    /\ \E f \in TimeFormats : text[1] = format_time(f, msecs, FALSE)

\* A time read from from and written as to: absent stays absent, and one
\* that is present is written with the milliseconds it was read with.
SameTime(from, to) ==
    IF from = NoText THEN to = NoText
    ELSE Denotes(to, string_to_time(from[1]))

\* C27 as stated: in the document saved from a run that was loaded, the time
\* of the attempt, and each segment's best segment time, personal-best split
\* and history entry, hold the milliseconds they held in the document
\* loaded, and one that was absent is absent.
C27_Original ==
    conv.pc = "done"
    => /\ conv.file.attempt_history[1].time # NoText
          => /\ Len(conv.saved.attempt_history) = 1
             /\ SameTime(conv.file.attempt_history[1].time,
                         conv.saved.attempt_history[1].time)
       /\ \A i \in Segs :
             /\ SameTime(conv.file.segments[i].best_segment_time,
                         conv.saved.segments[i].best_segment_time)
             /\ SameTime(conv.file.segments[i].personal_best_split_time,
                         conv.saved.segments[i].split_times)
             /\ \A e \in conv.file.segments[i].segment_history :
                   \E s \in conv.saved.segments[i].segment_history :
                      s.id = e.id /\ SameTime(e.time, s.time)

\* The cells of a full repaint, in the order of the panel: background, title
\* of the run, attempts counter, the title and the time of every segment
\* row with row c highlighted, the summary row, the clock.
FullRepaint(c) ==
    << <<"background", 0, FALSE>>, <<"game", 0, FALSE>>,
       <<"attempts", 0, FALSE>> >>
    \o [k \in 1 .. 2 * NumSegments |->
           <<IF k % 2 = 1 THEN "title" ELSE "time", (k - 1) \div 2,
             (k - 1) \div 2 = c>>]
    \o << <<"sum_of_best", NumSegments + 2, FALSE>>,
          <<"clock", NumSegments + 1, FALSE>> >>

\* C28: a pass of draw that finds the reported scale different from the
\* scale of the pass before takes the reported scale and discards the
\* cursor before anything else, and nothing gives the cursor back before
\* the pass paints; a pass that paints with no cursor paints the background,
\* the title, the attempts counter, every segment row and the summary row,
\* and its first damage rectangle is the whole buffer, 0, 0, width * scale,
\* height * scale at the reported scale.
C28_FullRepaintWithoutCursor ==
    [][
        /\ RenderBuffer
           => /\ render'.current_scale = render.scale
              /\ render.current_scale # render.scale => current_split' = None
        /\ render.pc = "lock" => current_split' = current_split
        /\ (RenderPaint /\ current_split = None)
           => /\ render'.damage # << >>
              /\ render'.damage[1] = <<"surface", 0>>
              /\ \A d \in SurfaceDimensions :
                    full_damage(d, render.current_scale)
                       = <<0, 0, d[1] * render.scale, d[2] * render.scale>>
              /\ Surface_paint(timer, current_split)
                    = FullRepaint(IF timer.current_split_index = None THEN 0
                                  ELSE timer.current_split_index)
      ]_vars

\* A full repaint at scale 2 has been painted over a surface that was drawn
\* at scale 1 with the cursor on the second segment.
C28_Witness ==
    /\ render.pc = "commit"
    /\ render.scale = 2
    /\ render.current_scale = 2
    /\ render.damage # << >>
    /\ render.damage[1] = <<"surface", 0>>
    /\ timer.current_split_index = 1
    /\ timer.phase = "Running"
    /\ timer.attempt_count = 2

\* How many rectangles of a pass cover the cell.
Rectangles(damage, cell) ==
    Cardinality({k \in 1 .. Len(damage) : damage[k] = cell})

\* Whether a pass paints the cell.
Paints(painted, cell) == \E k \in 1 .. Len(painted) : painted[k] = cell

\* C29: a pass that paints with its cursor on row p while the timer's
\* current index is c, c not p, paints the title and the time of row p not
\* highlighted, the time from the split recorded for p and not from the
\* running clock; the title and the time of row c highlighted; the attempts
\* counter; and the line of the previous segment.  It submits exactly one
\* rectangle for each of these cells, does not paint the background and
\* submits no rectangle for the whole surface.
C29_CursorMovedRedraw ==
    [][(/\ RenderPaint
        /\ current_split # None
        /\ timer.current_split_index # None
        /\ current_split # timer.current_split_index)
       => LET p == current_split
              c == timer.current_split_index
              painted == Surface_paint(timer, p)
              rows == {<<"title", p>>, <<"time", p>>, <<"title", c>>,
                       <<"time", c>>}
              lines == {<<"attempts", 0>>, <<"previous", NumSegments + 3>>}
          IN /\ \A cell \in rows :
                   /\ Paints(painted, <<cell[1], cell[2], cell[2] = c>>)
                   /\ ~Paints(painted, <<cell[1], cell[2], cell[2] # c>>)
             /\ \A cell \in lines : Paints(painted, <<cell[1], cell[2], FALSE>>)
             /\ \A cell \in rows \cup lines :
                   Rectangles(render'.damage, cell) = 1
             /\ draw_segment_time(timer, now, p, FALSE).candidate
                   = timer.split_time[p]
             /\ draw_segment_time(timer, now, c, TRUE).candidate
                   = Timer_current_time(timer, now)
             /\ ~Paints(painted, <<"background", 0, FALSE>>)
             /\ Rectangles(render'.damage, <<"surface", 0>>) = 0
      ]_vars

\* The pass after the first split of an attempt: the cursor was on row 0,
\* the second segment is current, and seven rectangles are to be submitted.
C29_Witness ==
    /\ render.pc = "commit"
    /\ timer.phase = "Running"
    /\ timer.current_split_index = 1
    /\ timer.split_time[0] # None
    /\ current_split = 1
    /\ Len(render.damage) = 7
    /\ render.damage[1] = <<"title", 0>>
    /\ render.damage[2] = <<"title", 1>>

\* A run of three segments, the third current: the personal best passed the
\* segments at 1000, 2000 and 3000 ms and every gold is 1000 ms; this
\* attempt split the first segment at 1200 ms and the second at 2100 ms,
\* behind the personal best at both, with a second segment of 900 ms.
GoldBehindScenario ==
    [phase |-> "Running",
     current_split_index |-> 2,
     adjusted_start_time |-> 0,
     time_paused_at |-> 0,
     split_time |-> (0 :> 1200 @@ 1 :> 2100 @@ 2 :> None),
     personal_best_split_time |-> (0 :> 1000 @@ 1 :> 2000 @@ 2 :> 3000),
     best_segment_time |-> (0 :> 1000 @@ 1 :> 1000 @@ 2 :> 1000),
     segment_history |-> (0 :> {[id |-> 1, time |-> 1000]}
                          @@ 1 :> {[id |-> 1, time |-> 1000]}
                          @@ 2 :> {[id |-> 1, time |-> 1000]})]

\* C30: a row that is not current and whose segment has a split, taken
\* after a split of the segment before it, is gold when that split less
\* the one before (the split itself at the first segment) is below the
\* stored best segment time, whether the split is before or after the
\* personal best split; it is not gold when the two are equal; and the
\* current row is never gold.  In the scenario the second row is gold while
\* behind, the first is a loss, and a first segment of exactly 1000 ms or a
\* second row drawn as current is not gold.
C30_GoldRowBelowStoredBest ==
    /\ \A i \in Segs : \A current \in BOOLEAN :
          LET row == draw_segment_time(timer, now, i, current)
              segment == SegmentTime(timer, i)
              stored == timer.best_segment_time[i]
          IN /\ (~current /\ segment # None /\ stored # None
                    /\ segment < stored)
                   => row.color = "Gold"
             /\ (segment # None /\ stored # None /\ segment = stored)
                   => row.color # "Gold"
             /\ current => row.color # "Gold"
             /\ row.color \in SplitColors
    /\ draw_segment_time(GoldBehindScenario, 2500, 1, FALSE).color = "Gold"
    /\ draw_segment_time(GoldBehindScenario, 2500, 0, FALSE).color = "Loss"
    /\ draw_segment_time(GoldBehindScenario, 2500, 1, TRUE).color = "Loss"
    /\ draw_segment_time([GoldBehindScenario EXCEPT !.split_time[0] = 1000],
                         2500, 0, FALSE).color = "Loss"
    /\ draw_segment_time([GoldBehindScenario EXCEPT !.split_time[0] = 900],
                         2500, 0, FALSE).color = "Gold"

\* The second segment is current; the first was split below its stored
\* best segment time and its row is gold, the row of the second is not.
C30_Witness ==
    /\ timer.phase = "Running"
    /\ timer.current_split_index = 1
    /\ timer.best_segment_time[0] = 1
    /\ timer.split_time[0] = 0
    /\ draw_segment_time(timer, now, 0, FALSE).color = "Gold"
    /\ draw_segment_time(timer, now, 1, TRUE).color # "Gold"

\* C31: the difference of a candidate to a reference, both present, is shown
\* as the text of |candidate - reference| milliseconds after a sign: "-" in
\* the gain colour when the reference is above the candidate, "+" in the
\* loss colour otherwise, the two being equal included.
C31_SignedDifference ==
    (conv.pc = "done" /\ conv.time # None /\ conv.best # None)
    => LET size == IF conv.best > conv.time THEN conv.best - conv.time
                   ELSE conv.time - conv.best
       IN /\ conv.text # << >>
          /\ Tail(conv.text) = format_time(TimeFormat_default, size, FALSE)
          /\ conv.best > conv.time
                => Head(conv.text) = "-" /\ conv.color = "Gain"
          /\ conv.best <= conv.time
                => Head(conv.text) = "+" /\ conv.color = "Loss"

\* A candidate equal to its reference has been compared: "+00.000", a loss.
C31_Witness ==
    /\ conv.pc = "done"
    /\ conv.time = 1000
    /\ conv.best = 1000
    /\ conv.text = <<"+", "0", "0", ".", "0", "0", "0">>
    /\ conv.color = "Loss"

\* C32: a pass that got its buffer leaves the cursor at the current index
\* it read under the lock, and the commit that follows keeps it there; a
\* frame painted and committed while the timer is NotRunning started with no
\* cursor, is a full repaint, and leaves no cursor.
C32_CursorIsIndexRead ==
    [][
        /\ RenderPaint => current_split' = timer.current_split_index
        /\ RenderCommit => current_split' = current_split
        /\ (RenderPaint /\ timer.phase = "NotRunning"
               /\ render'.pc = "commit")
           => /\ current_split = None
              /\ current_split' = None
              /\ render'.damage # << >>
              /\ render'.damage[1] = <<"surface", 0>>
      ]_vars

\* A full repaint of the idle panel is about to be committed after an attempt
\* was reset; the cursor is empty.
C32_Witness ==
    /\ render.pc = "commit"
    /\ timer.phase = "NotRunning"
    /\ timer.attempt_count = 2
    /\ Len(timer.attempt_history) = 2
    /\ current_split = None
    /\ render.damage # << >>
    /\ render.damage[1] = <<"surface", 0>>

\* C33 as stated: once the timer is NotRunning while the cursor still marks
\* a row of the attempt that was shown, a full repaint of the idle panel is
\* painted for commit, unless a command starts another attempt or the
\* loop ends first.
C33_Original ==
    (timer.phase = "NotRunning" /\ current_split # None)
    ~> (\/ timer.phase # "NotRunning"
        \/ render.pc \in {"done", "exited"}
        \/ /\ render.pc = "commit"
           /\ current_split = None
           /\ render.damage # << >>
           /\ render.damage[1] = <<"surface", 0>>)

\* C34 as stated: when a pass paints a frame for commit with the timer
\* Running, every row before the current index it read then shows the split
\* recorded for its segment in this attempt.
C34_Original ==
    [][(PanelPaint /\ timer.phase = "Running" /\ render'.pc = "commit")
       => \A i \in Segs :
             i < timer.current_split_index
                => conv'.rows[i] = timer.split_time[i]]_vars

\* C35: a "pause" line handled while the timer is NotRunning starts an
\* attempt: the phase becomes Running with the first segment current, the
\* timer being exactly what a "start" line would have made it, and the run
\* file is not written.
C35_PauseStartsAttempt ==
    [][(socket'.applied = Append(socket.applied, "pause")
           /\ timer.phase = "NotRunning")
       => /\ timer'.phase = "Running"
          /\ timer'.current_split_index = 0
          /\ timer'.attempt_count = timer.attempt_count + 1
          /\ timer' = handle_line(Self, "start", now, writable).timer
          /\ file' = file
          /\ exit' = exit]_vars

\* The only line handled so far is a pause, and an attempt is in progress.
C35_Witness ==
    /\ socket.applied = <<"pause">>
    /\ timer.phase = "Running"
    /\ timer.current_split_index = 0
    /\ timer.attempt_count = 1
    /\ timer.split_time = [i \in Segs |-> None]

\* C36: no skip leaves the timer in phase Ended or with current_split_index
\* equal to the number of segments, and none writes the run file; a skip
\* applied at the last segment changes nothing at all: the attempt is neither
\* ended nor recorded.
C36_SkipNeverEnds ==
    [][Skip
       => /\ timer'.phase # "Ended"
          /\ timer'.phase = timer.phase
          /\ timer'.current_split_index # NumSegments
          /\ timer'.current_split_index \in Segs \cup {None}
          /\ file' = file
          /\ RunData(timer') = RunData(timer)
          /\ timer.current_split_index = NumSegments - 1
             => timer' = timer]_vars

\* Every segment but the last has been skipped in the second attempt: the
\* last segment is current, the attempt is in progress and no split of it is
\* recorded, so the next skip finds the last segment.
C36_Witness ==
    /\ timer.phase \in {"Running", "Paused"}
    /\ timer.current_split_index = NumSegments - 1
    /\ \A i \in Segs : timer.split_time[i] = None
    /\ timer.attempt_count = 2

\* C37: a "reset" line is handled as reset(true), and whatever line the
\* listener handles, an attempt in progress that is no longer in the timer
\* afterwards has been appended to the attempt history under the next id and
\* the run file has been written from the timer that holds it (write_file is
\* called; storage taking the write, the file is that document).
C37_SocketResetRecords ==
    [][
        /\ socket'.applied = Append(socket.applied, "reset")
           => /\ timer' = Timer_reset(timer, TRUE, now)
              /\ timer'.phase = "NotRunning"
              /\ writable => file' = RunFile(timer')
        /\ (Len(socket'.applied) = Len(socket.applied) + 1
               /\ timer.phase \in {"Running", "Paused"}
               /\ timer'.phase = "NotRunning")
           => /\ Len(timer'.attempt_history) = Len(timer.attempt_history) + 1
              /\ timer'.attempt_history[Len(timer'.attempt_history)].index
                     = NextAttemptId(timer)
              /\ SubSeq(timer'.attempt_history, 1, Len(timer.attempt_history))
                     = timer.attempt_history
              /\ writable => file' = RunFile(timer')
        /\ (Len(socket'.applied) = Len(socket.applied) + 1
               /\ timer.phase \in {"Running", "Paused"}
               /\ timer'.phase # "NotRunning")
           => /\ timer'.attempt_count = timer.attempt_count
              /\ timer'.attempt_history = timer.attempt_history
              /\ timer'.phase \in {"Running", "Paused"}
      ]_vars

\* A start and a reset have come over the socket: the abandoned attempt is
\* the last of the history and the file on storage holds it.
C37_Witness ==
    /\ socket.applied = <<"start", "reset">>
    /\ timer.phase = "NotRunning"
    /\ timer.attempt_count = Len(timer.attempt_history)
    /\ timer.attempt_history[Len(timer.attempt_history)].time = None
    /\ file = RunFile(timer)
    /\ Len(file.attempt_history) = Len(timer.attempt_history)

QuitApplied == \E k \in 1 .. Len(socket.applied) : socket.applied[k] = "quit"

\* C38: the quit line raises the exit flag and leaves the timer as it was,
\* and once a quit has been handled no step changes the timer, the run file
\* or the exit flag, no further line is handled and no connection is read
\* any further, whatever the clients connect or send afterwards.
C38_NothingAfterQuit ==
    [][
        /\ socket'.applied = Append(socket.applied, "quit")
           => (exit' /\ timer' = timer /\ file' = file)
        /\ QuitApplied
           => /\ timer' = timer
              /\ file' = file
              /\ exit' = exit
              /\ socket'.applied = socket.applied
              /\ \A k \in 1 .. Len(socket.conns) :
                    socket'.conns[k].read = socket.conns[k].read
      ]_vars

\* A quit came on the first connection; a start sent on a second connection
\* afterwards stays unread and the timer has not started.
C38_Witness ==
    /\ socket.applied = <<"quit">>
    /\ Len(socket.conns) = 2
    /\ socket.conns[1].sent = <<"quit">>
    /\ socket.conns[2].sent = <<"start">>
    /\ socket.conns[2].read = 0
    /\ ~socket.conns[1].open
    /\ exit
    /\ timer.phase = "NotRunning"

\* Where the render loop is about to call timer.lock().
RenderWaits == render.pc \in {"top", "skipped", "events", "lock"}

\* C39: the listener thread and the render loop never deadlock on the timer
\* lock.  The render loop holds the lock only while draw paints, so at none
\* of the places where it asks for the lock does it hold it already, and the
\* listener asks only when it holds nothing; the lock once taken is given
\* back, by draw on its early return as well; and a thread that waits for
\* the lock is granted it, unless the program ends first.
C39_NoDeadlock ==
    /\ [](/\ lock = "render" <=> render.pc = "paint"
          /\ RenderWaits => lock # "render"
          /\ ListenerWaits => lock # "listener")
    /\ (lock # "none") ~> (lock = "none")
    /\ (render.pc \in {"top", "skipped", "lock"})
          ~> (render.pc \in {"events", "done", "paint"})
    /\ ListenerWaits ~> (lock = "listener" \/ render.pc = "exited")

\* The listener waits with a line in hand while draw holds the lock on the
\* pass that will return early: the cursor is set and the timer was reset.
C39_Witness ==
    /\ lock = "render"
    /\ render.pc = "paint"
    /\ current_split # None
    /\ timer.current_split_index = None
    /\ ListenerWaits
    /\ socket.applied = <<"start", "reset">>

\* C40: while Closed is pending the pending event stays Closed, whatever the
\* compositor delivers next, until the poll takes it; no step of the loop
\* begins a draw, paints or moves the cursor; and the poll that takes it ends
\* the loop, leaving the dimensions as they were (the loop ends before that
\* poll only on the exit flag, read at the top of the tick).
C40_ClosedStays ==
    [][conv.next_render_event = RenderEvent_Closed
       => /\ render'.pc \in {"top", "skipped", "events", "done", "exited"}
          /\ current_split' = current_split
          /\ render'.damage \in {render.damage, << >>}
          /\ \/ conv'.next_render_event = RenderEvent_Closed
             \/ render.pc = "events" /\ render'.pc = "done"
          /\ conv'.dimensions = conv.dimensions
          /\ (render.pc = "events" /\ render' # render) => render'.pc = "done"
          /\ (render'.pc = "done" /\ render.pc # "done")
             => (render.pc = "events" \/ exit)]_vars

\* A Configure was delivered after the Closed, and Closed is still what the
\* poll is about to take.
C40_Witness ==
    /\ conv.pc = "surface"
    /\ conv.next_render_event = RenderEvent_Closed
    /\ conv.last.kind = "Configure"
    /\ render.pc = "events"
    /\ ~exit

=============================================================================
